---- MODULE Spec2Model ----
(***************************************************************************)
(* LiveRecorder: the recording orchestration engine.                       *)
(*                                                                         *)
(* State machine of src/src/liverecorder/live_recorder.py (LiveRecorder,   *)
(* Kwai, the module-level registry `recording`) and of the per-user and    *)
(* global recording handlers of src/src/liverecorder/gui.py.               *)
(*                                                                         *)
(* Threads of the program and how they appear here:                        *)
(*   - the caller thread: start, stop (two steps around its sleep(0.2)),   *)
(*     add_user, stop_user;                                                *)
(*   - the thread that executes run_loop: RunLoopCreateTasks, then         *)
(*     RunLoopForever; from then on it is the event-loop thread, which     *)
(*     runs one coroutine step or one call_soon_threadsafe callback at a   *)
(*     time (Task.., LoopCancelTasks, LoopStop), nothing while a coroutine     *)
(*     blocks it in requests.post (busy);                                  *)
(*   - one capture thread per asyncio.to_thread(run_record), S_.. ;        *)
(*   - one threading.Timer thread per armed duration timer, T_.. .         *)
(*                                                                         *)
(* Scope: a LiveRecorder object is started at most once (every caller in   *)
(* the repository builds a new object per start: gui.py:899, 1160); a      *)
(* start() on a running recorder is the no-op branch of start.             *)
(*                                                                         *)
(* The URL a probe of user u returns is written u: the model takes the     *)
(* case in which two probes of one account return the same URL string.     *)
(***************************************************************************)
EXTENDS Integers, Sequences, FiniteSets, TLC

\* ------------------------------------------------------------------ bounds
MaxTasks == 2
MaxSessions == 2
MaxThreads == 3
MaxFaults == 1
MaxCalls == 2
MaxUpdates == 1
MaxPairs == 2
MaxEdits == 1

\* ------------------------------------------------------------- input data
Recorders == {"g", "p"}
UserIds == {1, 2, 3, 4, 5}
TaskIds == 1..MaxTasks
SessIds == 1..MaxSessions
NoTask == 0
NoSess == 0

\* The user records of the configuration store (config_manager.py:212-222).
\* User 1 records without a duration, user 2 for one second, user 3 names a
\* platform for which live_recorder.py defines no class, users 4 and 5 are
\* records with an interval of zero and a negative one, as import_config
\* stores them (config_manager.py:238-264).
UserRecord(u) ==
    CASE u = 1 -> [id |-> 1, platform |-> "Kwai", interval |-> 1,
                   duration |-> 0, duration_unit |-> "none"]
      [] u = 2 -> [id |-> 2, platform |-> "Kwai", interval |-> 2,
                   duration |-> 1, duration_unit |-> "seconds"]
      [] u = 4 -> [id |-> 4, platform |-> "Kwai", interval |-> 0,
                   duration |-> 0, duration_unit |-> "none"]
      [] u = 5 -> [id |-> 5, platform |-> "Kwai", interval |-> -1,
                   duration |-> 0, duration_unit |-> "none"]
      [] OTHER -> [id |-> 3, platform |-> "Douyin", interval |-> 1,
                   duration |-> 0, duration_unit |-> "none"]

\* The configurations a recorder is constructed with: the user list, and
\* whether the dictionary carries the key 'proxy' (gui.py:1145 copies it only
\* when the store has it; gui.py:829 always sets it).
UserLists == {<<1>>, <<2>>, <<1, 2>>, <<3, 1>>}

\* The users add_user and stop_user are called with.
ApiUsers == {1, 2, 3}
Configs == [hasProxy : BOOLEAN, user : UserLists, callback : {FALSE}, version : {0}]
NoConfig == [hasProxy |-> FALSE, user |-> <<>>, callback |-> FALSE, version |-> 0]

\* The classes globals() holds (live_recorder.py:746).
PlatformClasses == {"Kwai"}

VARIABLES
    config,       \* [Recorders -> config record]         self.config
    running,      \* [Recorders -> BOOLEAN]               self.running
    started,      \* [Recorders -> BOOLEAN]               start() has taken its main branch
    tasks,        \* [Recorders -> Seq(TaskIds)]          self.tasks
    loop,         \* [Recorders -> "none","new","running","stopped"]   self.loop
    loopQ,        \* [Recorders -> Seq({"cancel_tasks","stop"})]  call_soon_threadsafe queue
    busy,         \* [Recorders -> TaskIds \cup {0}]      coroutine blocking the loop thread
    runLoopPc,    \* [Recorders -> "none","ready","created","forever","returned"]
    stopPc,       \* [Recorders -> "idle","sleep"]        position of a stop() in progress
    task,         \* [TaskIds -> task record]             the asyncio tasks
    sess,         \* [SessIds -> session record]          the run_record executions
    recording,    \* [UserIds -> SessIds \cup {0}]        the registry, by URL
    created,      \* [Recorders -> Seq(UserIds)]          users for which the last run_loop made a task
    faults,       \* 0..MaxFaults   failures and wait_for expiries the environment has produced
    calls,        \* 0..MaxCalls    add_user and stop_user calls made so far
    guiRecording, \* BOOLEAN                             gui.py self.recording
    guiRecorder,  \* "none" or a recorder                gui.py self.recorder
    recordThread, \* "none","new","started"              the thread of record_task (gui.py:1158)
    userRecorders,\* [UserIds -> "none" or a recorder]   gui.py self.user_recorders
    userStatus,   \* [UserIds -> BOOLEAN]                gui.py self.user_recording_status
    userThread,   \* [UserIds -> "none","new","started","loop","ended"]  create_recorder_and_start
    cbPc,         \* [SessIds -> "none","call","wait"]   gui_timeout_callback on the timer thread
    raised,       \* SUBSET UserIds: users whose spawn failure was raised to the caller of the API
    sig,          \* two calls of create_signature: their arguments and results
    built,        \* a Kwai instance under construction and use: the settings it takes
    armed,        \* a run_record call up to the arming of its duration timer
    store,        \* the ConfigManager database and a dictionary exported from it
    writer        \* a stream_writer call: its stream, its output, its registry entry

vars == <<config, running, started, tasks, loop, loopQ, busy,
          runLoopPc, stopPc, task, sess, recording, created, faults, calls, raised, sig,
          built, armed, store, writer,
          guiRecording, guiRecorder, recordThread, userRecorders, userStatus,
          userThread, cbPc>>

guiVars == <<guiRecording, guiRecorder, recordThread, userRecorders, userStatus,
             userThread, cbPc>>

recVars == <<config, running, started, tasks, loop, loopQ, busy,
             runLoopPc, stopPc, created>>

\* The variables of the parts of the program that are studied on their
\* own; each is Idle in the runs of the others.
unitVars == <<built, armed, store, writer>>

envVars == <<faults, calls, raised, sig, unitVars>>

FreeTask == [pc |-> "free", rec |-> "g", user |-> 1, cancel |-> "no",
             wait |-> 0, sess |-> NoSess, marked |-> FALSE, settings |-> 0]

FreeSession == [pc |-> "free", rec |-> "g", user |-> 1, url |-> 1, task |-> NoTask,
                stream |-> "none", output |-> "none", timer |-> "none",
                userStopped |-> FALSE]

\* ------------------------------------------------------------ the handles
\* StreamIO.close(): closes an open stream, a closed one stays closed.
CloseStream(st) == IF st = "open" THEN "closed" ELSE st

\* FileOutput.close(): acts on an opened output only (the state the code reads
\* as output.opened, live_recorder.py:622); an output that was created and
\* never opened stays as it is.
CloseOutput(o) == IF o = "open" THEN "closed" ELSE o

\* getattr(output, 'closed', True), live_recorder.py:546. A FileOutput keeps
\* its state in the attribute `opened` and has no attribute `closed`, so the
\* default of the getattr is what the guard reads.
OutputClosedAttr(o) == TRUE

\* getattr(stream_fd, 'closed', True), live_recorder.py:553: a StreamIO is an
\* io.IOBase and has the attribute.
StreamClosedAttr(st) == st # "open"

\* The seconds of the timer if an hour were taken for sixty seconds.
TimerSecondsShortHour(duration, unit) ==
    IF duration # 0 /\ unit # "none"
    THEN CASE unit = "seconds" -> duration
           [] unit = "minutes" -> duration * 60
           [] unit = "hours" -> duration * 60
           [] OTHER -> 0
    ELSE 0

\* The seconds run_record arms its timer with (0: no timer), lines 473-487.
TimerSeconds(duration, unit) ==
    IF duration # 0 /\ unit # "none"
    THEN CASE unit = "seconds" -> duration
           [] unit = "minutes" -> duration * 60
           [] unit = "hours" -> duration * 3600
           [] OTHER -> 0
    ELSE 0

\* --------------------------------------------------------------- helpers
FreeTaskIds == {t \in TaskIds : task[t].pc = "free"}
NewTask == CHOOSE t \in FreeTaskIds : \A x \in FreeTaskIds : t <= x
FreeSessIds == {s \in SessIds : sess[s].pc = "free"}
NewSess == CHOOSE s \in FreeSessIds : \A x \in FreeSessIds : s <= x

RECURSIVE SeqToSet(_)
SeqToSet(q) == IF q = <<>> THEN {} ELSE {Head(q)} \cup SeqToSet(Tail(q))

\* Coroutines and capture threads made so far, and room for n more.
Threads == Cardinality({t \in TaskIds : task[t].pc # "free"})
           + Cardinality({s \in SessIds : sess[s].pc # "free"})
Room(n) == Threads + n <= MaxThreads

\* platform_class(self.config, user, ...) succeeds: globals() has the class
\* (lines 114, 214) and Kwai.__init__ finds config['proxy'] (line 758).
CanConstruct(cfg, u) ==
    /\ UserRecord(u).platform \in PlatformClasses
    /\ cfg.hasProxy

\* Line 313: the condition of the while loop (task_running is TRUE whenever
\* it is evaluated); "cycle" is the suspension in wait_for(recorder.run()).
LoopTop(r) == IF running[r] THEN "cycle" ELSE "done"

\* Lines 338-346: from the end of a cycle to the first suspension of the
\* interval wait, or out of the loop.
EnterWait(t) ==
    LET r == task[t].rec
        n == UserRecord(task[t].user).interval
    IN  IF n <= 0 THEN [pc |-> LoopTop(r), wait |-> 0]
        ELSE IF ~running[r] THEN [pc |-> "done", wait |-> 0]
        ELSE [pc |-> "interval", wait |-> 1]

\* The event-loop thread of the task's recorder can run a step of it.
CanStep(t) ==
    /\ task[t].pc \notin {"free", "done"}
    /\ loop[task[t].rec] = "running"
    /\ busy[task[t].rec] = NoTask

\* The registry as recording.copy() sees it: the sessions whose pair is stored.
Registered == {recording[u] : u \in UserIds} \ {NoSess}

\* ------------------------------------------------------------------ Init
\* The value of a unit variable in the runs that do not exercise its part.
Idle == "idle"

IdleUnits == built = Idle /\ armed = Idle /\ store = Idle /\ writer = Idle

InitCommon ==
    /\ running = [r \in Recorders |-> FALSE]
    /\ started = [r \in Recorders |-> FALSE]
    /\ tasks = [r \in Recorders |-> <<>>]
    /\ loop = [r \in Recorders |-> "none"]
    /\ loopQ = [r \in Recorders |-> <<>>]
    /\ busy = [r \in Recorders |-> NoTask]
    /\ runLoopPc = [r \in Recorders |-> "none"]
    /\ stopPc = [r \in Recorders |-> "idle"]
    /\ task = [t \in TaskIds |-> FreeTask]
    /\ sess = [s \in SessIds |-> FreeSession]
    /\ recording = [u \in UserIds |-> NoSess]
    /\ created = [r \in Recorders |-> <<>>]
    /\ faults = 0
    /\ calls = 0
    /\ raised = {}
    /\ guiRecording = FALSE
    /\ guiRecorder = "none"
    /\ recordThread = "none"
    /\ userRecorders = [u \in UserIds |-> "none"]
    /\ userStatus = [u \in UserIds |-> FALSE]
    /\ userThread = [u \in UserIds |-> "none"]
    /\ cbPc = [s \in SessIds |-> "none"]

\* ------------------------------------------------ Kwai.create_signature
\* Text is a sequence of one-character strings.  Code is the code point of
\* the characters the inputs are made of: Python orders str by code point.
Code(c) ==
    CASE c = "%" -> 37 [] c = "&" -> 38 [] c = "1" -> 49 [] c = "2" -> 50
      [] c = "3" -> 51 [] c = "=" -> 61 [] c = "N" -> 78 [] c = "S" -> 83
      [] c = "_" -> 95 [] c = "a" -> 97 [] c = "b" -> 98 [] c = "e" -> 101
      [] c = "g" -> 103 [] c = "i" -> 105 [] c = "k" -> 107 [] c = "n" -> 110
      [] c = "o" -> 111 [] c = "s" -> 115 [] c = "t" -> 116 [] OTHER -> 0

\* x < y for two str.
RECURSIVE StrLess(_, _)
StrLess(x, y) ==
    IF y = <<>> THEN FALSE
    ELSE IF x = <<>> THEN TRUE
    ELSE IF Code(Head(x)) # Code(Head(y)) THEN Code(Head(x)) < Code(Head(y))
    ELSE StrLess(Tail(x), Tail(y))

\* str.split(sep), line 769; cur is the piece being read.
RECURSIVE SplitOn(_, _, _)
SplitOn(text, sep, cur) ==
    IF text = <<>> THEN <<cur>>
    ELSE IF Head(text) = sep THEN <<cur>> \o SplitOn(Tail(text), sep, <<>>)
    ELSE SplitOn(Tail(text), sep, Append(cur, Head(text)))

\* The index of the first c in text, 0 when there is none.
RECURSIVE Find(_, _)
Find(text, c) ==
    IF text = <<>> THEN 0
    ELSE IF Head(text) = c THEN 1
    ELSE LET i == Find(Tail(text), c) IN IF i = 0 THEN 0 ELSE i + 1

\* Lines 770-774: pair.split('=', 1), or the pair as a key of ''.
ParsePair(pair) ==
    LET i == Find(pair, "=")
    IN  IF i = 0 THEN [k |-> pair, v |-> <<>>]
        ELSE [k |-> SubSeq(pair, 1, i - 1), v |-> SubSeq(pair, i + 1, Len(pair))]

\* A dict is the sequence of its items in insertion order.  d[k] = v:
DictSet(d, k, v) ==
    IF \E i \in 1..Len(d) : d[i].k = k
    THEN [i \in 1..Len(d) |-> IF d[i].k = k THEN [k |-> k, v |-> v] ELSE d[i]]
    ELSE Append(d, [k |-> k, v |-> v])

\* {**d, **items}: the items assigned to d in their order.
RECURSIVE DictUpdate(_, _)
DictUpdate(d, items) ==
    IF items = <<>> THEN d
    ELSE DictUpdate(DictSet(d, Head(items).k, Head(items).v), Tail(items))

\* Lines 768-774: query_obj.
ParseQuery(query_str) ==
    LET pairs == SplitOn(query_str, "&", <<>>)
    IN  DictUpdate(<<>>, [i \in 1..Len(pairs) |-> ParsePair(pairs[i])])

\* The place of an item in a list sorted by key: before the first item of
\* a greater key.
RECURSIVE InsertSorted(_, _)
InsertSorted(sorted, item) ==
    IF sorted = <<>> THEN <<item>>
    ELSE IF StrLess(item.k, Head(sorted).k) THEN <<item>> \o sorted
    ELSE <<Head(sorted)>> \o InsertSorted(Tail(sorted), item)

\* The items left in the order of the dict.
KeepOrder(items) == items

\* sorted(map_object.items(), key=lambda x: x[0]), line 780: a stable sort.
RECURSIVE SortedByKey(_)
SortedByKey(items) ==
    IF items = <<>> THEN <<>>
    ELSE InsertSorted(SortedByKey(SubSeq(items, 1, Len(items) - 1)), items[Len(items)])

\* The character a %XX escape stands for, for the escapes of the characters
\* of the inputs; "" for any other two characters.
HexByte(h) ==
    CASE h = <<"3", "1">> -> "1"
      [] h = <<"3", "2">> -> "2"
      [] OTHER -> ""

\* urllib.parse.unquote, line 787: every %XX escape is replaced by its
\* character, anything else is kept.
RECURSIVE Unquote(_)
Unquote(text) ==
    IF text = <<>> THEN <<>>
    ELSE IF Head(text) = "%" /\ Len(text) >= 3 /\ HexByte(SubSeq(text, 2, 3)) # ""
    THEN <<HexByte(SubSeq(text, 2, 3))>> \o Unquote(SubSeq(text, 4, Len(text)))
    ELSE <<Head(text)>> \o Unquote(Tail(text))

KeyA == <<"a">>
KeyB == <<"b">>
SigKey == <<"s", "i", "g">>
NsSig3Key == <<"_", "_", "N", "S", "_", "s", "i", "g", "3">>
NsTokenSigKey == <<"_", "_", "N", "S", "t", "o", "k", "e", "n", "s", "i", "g">>

\* Line 785.
ExcludedKeys == {SigKey, NsSig3Key, NsTokenSigKey}

\* Line 790.
Secret == <<"3", "8", "2", "7", "0", "0", "b", "5", "6", "3", "f", "4">>

\* Lines 783-787 with every key taken, the excluded ones too.
RECURSIVE UrlStringAll(_)
UrlStringAll(items) ==
    IF items = <<>> THEN <<>>
    ELSE Head(items).k \o <<"=">> \o Unquote(Head(items).v) \o UrlStringAll(Tail(items))

\* Lines 783-787: url_string before the secret.
RECURSIVE UrlString(_)
UrlString(items) ==
    IF items = <<>> THEN <<>>
    ELSE (IF Head(items).k \in ExcludedKeys THEN <<>>
          ELSE Head(items).k \o <<"=">> \o Unquote(Head(items).v))
         \o UrlString(Tail(items))

\* hashlib.md5(...).hexdigest(), line 793: a function of the text that is
\* taken to have no collisions.
Md5(text) == <<"md5", text>>

\* Kwai.create_signature, lines 766-793 (str(v) of line 777 is v itself for
\* the str values of the body).
create_signature(query_str, post_dict) ==
    LET query_obj == ParseQuery(query_str)
        map_object == DictUpdate(query_obj, post_dict)
        sorted_items == SortedByKey(map_object)
    IN  Md5(UrlString(sorted_items) \o Secret)

\* The query string a caller writes for the pairs q (user_search, line 797).
RECURSIVE QueryString(_)
QueryString(q) ==
    IF q = <<>> THEN <<>>
    ELSE Head(q).k \o <<"=">> \o Head(q).v
         \o (IF Tail(q) = <<>> THEN <<>> ELSE <<"&">> \o QueryString(Tail(q)))

\* The arguments of the calls: keys of the query string and of the body
\* (user_search, lines 797-810: the query carries __NS_sig3, the body
\* receives sig), values with and without a percent escape.
QueryKeys == {KeyA, KeyB, NsSig3Key}
BodyKeys == {KeyA, KeyB, SigKey}
Values == {<<"1">>, <<"2">>, <<"%", "3", "1">>}

Items(keys) == [k : keys, v : Values]

\* The lists of at least lo and at most MaxPairs items of different keys.
ItemLists(keys, lo) ==
    UNION {{q \in [1..n -> Items(keys)] :
               \A i, j \in 1..n : i # j => q[i].k # q[j].k} : n \in lo..MaxPairs}

NoDigest == <<>>
NoSig == [q1 |-> <<>>, b1 |-> <<>>, q2 |-> <<>>, b2 |-> <<>>,
          out1 |-> NoDigest, out2 |-> NoDigest, edits |-> 0]

\* LiveRecorder.__init__ (lines 45-61) of one recorder "g", for every
\* configuration.
Init ==
    /\ InitCommon
    /\ sig = NoSig
    /\ IdleUnits
    /\ \E c \in Configs : config = [r \in Recorders |-> IF r = "g" THEN c ELSE NoConfig]

\* ------------------------------------------------- the orchestrator's API
\* A task made for the first user of the configuration instead of the user
\* given.
NewTaskRecordFirstUser(r, u) ==
    [FreeTask EXCEPT !.pc = "new", !.rec = r, !.user = Head(config[r].user),
                     !.settings = config[r].version]

\* loop.create_task(self._record_task(recorder)) for the recorder of user u.
\* The recorder instance keeps the configuration dictionary it was
\* constructed with: its proxy and output (lines 173-174, 758) and the
\* dictionary its config_manager reads (762-764).
NewTaskRecord(r, u) ==
    [FreeTask EXCEPT !.pc = "new", !.rec = r, !.user = u,
                     !.settings = config[r].version]

\* The for loop of run_loop (lines 210-227) over the users q: a task for
\* every user whose recorder instance can be constructed, the others are
\* logged and skipped.
RECURSIVE SpawnAll(_, _, _, _)
SpawnAll(acc, q, r, cfg) ==
    IF q = <<>> THEN acc
    ELSE LET u == Head(q)
             free == {t \in TaskIds : acc.task[t].pc = "free"}
             t == CHOOSE x \in free : \A y \in free : x <= y
         IN  IF CanConstruct(cfg, u) /\ free # {}
             THEN SpawnAll([task |-> [acc.task EXCEPT ![t] = NewTaskRecord(r, u)],
                            ids |-> Append(acc.ids, t),
                            users |-> Append(acc.users, u)], Tail(q), r, cfg)
             ELSE SpawnAll(acc, Tail(q), r, cfg)

\* LiveRecorder.start (lines 180-243): no-op on a running recorder, else
\* running is set, a new event loop is made and run_loop is returned.
StartCall(r) ==
    /\ config[r] # NoConfig
    /\ running[r] \/ ~started[r]
    /\ IF running[r]
       THEN UNCHANGED <<running, started, loop, runLoopPc>>
       ELSE /\ running' = [running EXCEPT ![r] = TRUE]
            /\ started' = [started EXCEPT ![r] = TRUE]
            /\ loop' = [loop EXCEPT ![r] = "new"]
            /\ runLoopPc' = [runLoopPc EXCEPT ![r] = "ready"]
    /\ UNCHANGED <<config, tasks, loopQ, busy, stopPc, task, sess, recording, created, envVars>>

start(r) == StartCall(r) /\ UNCHANGED guiVars

\* run_loop, lines 205-227: one task per user of the configuration.
RunLoopCreateTasks(r) ==
    /\ runLoopPc[r] = "ready"
    /\ LET res == SpawnAll([task |-> task, ids |-> <<>>, users |-> <<>>],
                           config[r].user, r, config[r])
       IN  /\ task' = res.task
           /\ tasks' = [tasks EXCEPT ![r] = @ \o res.ids]
           /\ created' = [created EXCEPT ![r] = res.users]
    /\ runLoopPc' = [runLoopPc EXCEPT ![r] = "created"]
    /\ UNCHANGED <<guiVars, config, running, started, loop, loopQ, busy,
                   stopPc, sess, recording, envVars>>

\* run_loop, line 231: self.loop.run_forever().
RunLoopForever(r) ==
    /\ runLoopPc[r] = "created"
    /\ runLoopPc' = [runLoopPc EXCEPT ![r] = "forever"]
    /\ loop' = [loop EXCEPT ![r] = "running"]
    /\ UNCHANGED <<guiVars, config, running, started, tasks, loopQ, busy,
                   stopPc, task, sess, recording, created, envVars>>

\* stop(), lines 281-288: every pair of recording.copy() is closed.
CloseAllRecording ==
    [s \in SessIds |->
        IF s \in Registered
        THEN [sess[s] EXCEPT !.stream = CloseStream(@), !.output = CloseOutput(@)]
        ELSE sess[s]]

\* stop(), lines 291-293.
StopLoopQueue(r, q) == IF loop[r] = "running" THEN Append(q, "stop") ELSE q

\* stop() without the test of self.running at lines 250-252.
StopCallAlways(r) ==
    /\ config[r] # NoConfig
    /\ stopPc[r] = "idle"
    /\ running' = [running EXCEPT ![r] = FALSE]
    /\ IF tasks[r] # <<>> /\ loop[r] = "running"
       THEN /\ loopQ' = [loopQ EXCEPT ![r] = Append(@, "cancel_tasks")]
            /\ stopPc' = [stopPc EXCEPT ![r] = "sleep"]
            /\ UNCHANGED <<tasks, sess>>
       ELSE /\ tasks' = [tasks EXCEPT ![r] = <<>>]
            /\ sess' = CloseAllRecording
            /\ loopQ' = [loopQ EXCEPT ![r] = StopLoopQueue(r, @)]
            /\ UNCHANGED stopPc
    /\ UNCHANGED <<config, started, loop, busy, runLoopPc, task,
                   recording, created, envVars>>

\* LiveRecorder.stop, lines 245-272: up to the sleep(0.2) when there are
\* tasks and the loop runs; otherwise the whole call.
StopCall(r) ==
    /\ config[r] # NoConfig
    /\ stopPc[r] = "idle"
    /\ IF ~running[r]
       THEN UNCHANGED <<running, tasks, loopQ, stopPc, sess>>
       ELSE /\ running' = [running EXCEPT ![r] = FALSE]
            /\ IF tasks[r] # <<>> /\ loop[r] = "running"
               THEN /\ loopQ' = [loopQ EXCEPT ![r] = Append(@, "cancel_tasks")]
                    /\ stopPc' = [stopPc EXCEPT ![r] = "sleep"]
                    /\ UNCHANGED <<tasks, sess>>
               ELSE /\ tasks' = [tasks EXCEPT ![r] = <<>>]
                    /\ sess' = CloseAllRecording
                    /\ loopQ' = [loopQ EXCEPT ![r] = StopLoopQueue(r, @)]
                    /\ UNCHANGED stopPc
    /\ UNCHANGED <<config, started, loop, busy, runLoopPc, task,
                   recording, created, envVars>>

StopBegin(r) == StopCall(r) /\ UNCHANGED guiVars

\* LiveRecorder.stop, lines 275-296: after the sleep.
StopFinish(r) ==
    /\ stopPc[r] = "sleep"
    /\ stopPc' = [stopPc EXCEPT ![r] = "idle"]
    /\ tasks' = [tasks EXCEPT ![r] = <<>>]
    /\ sess' = CloseAllRecording
    /\ loopQ' = [loopQ EXCEPT ![r] = StopLoopQueue(r, @)]
    /\ UNCHANGED <<guiVars, config, running, started, loop, busy, runLoopPc,
                   task, recording, created, envVars>>

\* cancel_tasks (lines 262-266), run by the loop thread: it reads self.tasks
\* when it runs.
LoopCancelTasks(r) ==
    /\ loop[r] = "running" /\ busy[r] = NoTask
    /\ loopQ[r] # <<>> /\ Head(loopQ[r]) = "cancel_tasks"
    /\ loopQ' = [loopQ EXCEPT ![r] = Tail(@)]
    /\ task' = [t \in TaskIds |->
                  IF t \in SeqToSet(tasks[r]) /\ task[t].pc # "done"
                  THEN [task[t] EXCEPT !.cancel = IF @ = "no" THEN "stop" ELSE @]
                  ELSE task[t]]
    /\ UNCHANGED <<guiVars, config, running, started, tasks, loop, busy,
                   runLoopPc, stopPc, sess, recording, created, envVars>>

\* loop.stop (line 293), run by the loop thread: run_forever returns.
LoopStop(r) ==
    /\ loop[r] = "running" /\ busy[r] = NoTask
    /\ loopQ[r] # <<>> /\ Head(loopQ[r]) = "stop"
    /\ loopQ' = [loopQ EXCEPT ![r] = Tail(@)]
    /\ loop' = [loop EXCEPT ![r] = "stopped"]
    /\ runLoopPc' = [runLoopPc EXCEPT ![r] = "returned"]
    /\ UNCHANGED <<guiVars, config, running, started, tasks, busy, stopPc,
                   task, sess, recording, created, envVars>>

\* The tasks a run_loop that has not yet run its for loop is going to create.
Reserved(r) == IF runLoopPc[r] = "ready" THEN Len(config[r].user) ELSE 0

\* LiveRecorder.add_user, lines 102-124: nothing on a recorder that is not
\* running (108-110); a task for the user when its recorder instance can be
\* constructed; otherwise the exception is raised to the caller (122-124).
add_user(r, u) ==
    /\ calls < MaxCalls
    /\ config[r] # NoConfig
    /\ Cardinality(FreeTaskIds) > Reserved(r) /\ Room(1)
    /\ IF running[r] /\ CanConstruct(config[r], u)
       THEN /\ task' = [task EXCEPT ![NewTask] = NewTaskRecord(r, u)]
            /\ tasks' = [tasks EXCEPT ![r] = Append(@, NewTask)]
       ELSE UNCHANGED <<task, tasks>>
    /\ raised' = IF running[r] /\ ~CanConstruct(config[r], u)
                 THEN raised \cup {u} ELSE raised
    /\ UNCHANGED <<guiVars, config, running, started, loop, loopQ, busy,
                   runLoopPc, stopPc, sess, recording, created, faults, sig, unitVars>>
    /\ calls' = calls + 1

\* The tasks stop_user finds: hasattr(task, '_recorder') and the id (141-142).
TasksOfUser(r, uid) ==
    {t \in SeqToSet(tasks[r]) : task[t].marked /\ task[t].user = uid}

\* The run_record executions in progress that the tasks ts await (926-935).
CapturesOf(ts) ==
    {s \in SessIds : sess[s].pc \notin {"free", "done"} /\ sess[s].task \in ts
                      /\ task[sess[s].task].sess = s}

\* LiveRecorder.stop_user, lines 126-155: nothing on a recorder that is not
\* running (132-134); the tasks found are cancelled and removed from
\* self.tasks.  (userStopped records, for the sessions those
\* tasks await, that this call was made while they were in progress.)
stop_user(r, uid) ==
    /\ calls < MaxCalls
    /\ config[r] # NoConfig
    /\ LET found == IF running[r] THEN TasksOfUser(r, uid) ELSE {}
       IN  /\ task' = [t \in TaskIds |->
                         IF t \in found
                         THEN [task[t] EXCEPT !.cancel = IF task[t].pc = "done" THEN @ ELSE "user"]
                         ELSE task[t]]
           /\ tasks' = [tasks EXCEPT ![r] = SelectSeq(@, LAMBDA t : t \notin found)]
           /\ sess' = [s \in SessIds |->
                         IF s \in CapturesOf(found)
                         THEN [sess[s] EXCEPT !.userStopped = TRUE]
                         ELSE sess[s]]
    /\ UNCHANGED <<guiVars, config, running, started, loop, loopQ, busy,
                   runLoopPc, stopPc, recording, created, faults, raised, sig, unitVars>>
    /\ calls' = calls + 1

\* ------------------------------------------- _record_task, one step each
\* Lines 304-313: the first step of the coroutine marks the task with its
\* recorder and reaches the loop.
TaskFirstStep(t) ==
    /\ CanStep(t) /\ task[t].cancel = "no"
    /\ task[t].pc = "new"
    /\ task' = [task EXCEPT ![t].marked = TRUE, ![t].pc = LoopTop(task[t].rec)]
    /\ UNCHANGED <<guiVars, recVars, envVars, sess, recording>>

\* A cancelled task gets CancelledError at its suspension: out of
\* wait_for (331-334), out of the interval sleep (347-350); a task
\* cancelled before its first step never runs.
TaskCancelled(t) ==
    /\ CanStep(t) /\ task[t].cancel # "no"
    /\ task' = [task EXCEPT ![t].pc = "done", ![t].cancel = "no", ![t].sess = NoSess,
                            ![t].wait = 0]
    /\ UNCHANGED <<guiVars, recVars, envVars, sess, recording>>

\* Kwai.run, lines 883-888, up to the blocking requests.post of user_search
\* (line 854): the loop thread is held by this coroutine.
TaskProbeBegin(t) ==
    /\ CanStep(t) /\ task[t].cancel = "no"
    /\ task[t].pc = "cycle"
    /\ task' = [task EXCEPT ![t].pc = "probing"]
    /\ busy' = [busy EXCEPT ![task[t].rec] = t]
    /\ UNCHANGED <<guiVars, config, running, started, tasks, loop, loopQ,
                   runLoopPc, stopPc, sess, recording, created, envVars>>

\* The probe returns a live URL and run_record is called in the coroutine
\* itself instead of through asyncio.to_thread: the loop thread stays held
\* by the task for the whole capture.
TaskProbeLiveInline(t) ==
    /\ task[t].pc = "probing"
    /\ FreeSessIds # {} /\ Room(1)
    /\ sess' = [sess EXCEPT ![NewSess] =
                  [FreeSession EXCEPT !.pc = "opening", !.rec = task[t].rec,
                                      !.user = task[t].user, !.url = task[t].user,
                                      !.task = t]]
    /\ task' = [task EXCEPT ![t].pc = "capture", ![t].sess = NewSess]
    /\ UNCHANGED <<guiVars, config, running, started, tasks, loop, loopQ, busy,
                   runLoopPc, stopPc, recording, created, envVars>>

\* The probe returns a live URL: lines 890-935, the HTTPStream is made and
\* asyncio.to_thread(self.run_record, stream, url, ...) starts the capture
\* thread; the task suspends on its future.
TaskProbeLive(t) ==
    /\ task[t].pc = "probing"
    /\ FreeSessIds # {} /\ Room(1)
    /\ busy' = [busy EXCEPT ![task[t].rec] = NoTask]
    /\ sess' = [sess EXCEPT ![NewSess] =
                  [FreeSession EXCEPT !.pc = "opening", !.rec = task[t].rec,
                                      !.user = task[t].user, !.url = task[t].user,
                                      !.task = t]]
    /\ task' = [task EXCEPT ![t].pc = "capture", ![t].sess = NewSess]
    /\ UNCHANGED <<guiVars, config, running, started, tasks, loop, loopQ,
                   runLoopPc, stopPc, recording, created, envVars>>

\* The probe returns no URL and the test of line 890 is not made: the
\* capture thread is started on the empty result.
TaskProbeNotLiveCaptures(t) ==
    /\ task[t].pc = "probing"
    /\ FreeSessIds # {} /\ Room(1)
    /\ busy' = [busy EXCEPT ![task[t].rec] = NoTask]
    /\ sess' = [sess EXCEPT ![NewSess] =
                  [FreeSession EXCEPT !.pc = "opening", !.rec = task[t].rec,
                                      !.user = task[t].user, !.url = 0,
                                      !.task = t]]
    /\ task' = [task EXCEPT ![t].pc = "capture", ![t].sess = NewSess]
    /\ UNCHANGED <<guiVars, config, running, started, tasks, loop, loopQ,
                   runLoopPc, stopPc, recording, created, envVars>>

\* The probe returns no URL: lines 943-945, run() returns and the task
\* enters the interval wait.
TaskProbeNotLive(t) ==
    /\ task[t].pc = "probing"
    /\ busy' = [busy EXCEPT ![task[t].rec] = NoTask]
    /\ task' = [task EXCEPT ![t].pc = EnterWait(t).pc, ![t].wait = EnterWait(t).wait]
    /\ UNCHANGED <<guiVars, config, running, started, tasks, loop, loopQ,
                   runLoopPc, stopPc, sess, recording, created, envVars>>

\* The probe raises and no handler catches it (neither line 946 nor line
\* 351): the exception ends the coroutine.
TaskProbeErrorEnds(t) ==
    /\ faults < MaxFaults
    /\ task[t].pc = "probing"
    /\ busy' = [busy EXCEPT ![task[t].rec] = NoTask]
    /\ task' = [task EXCEPT ![t].pc = "done"]
    /\ UNCHANGED <<guiVars, config, running, started, tasks, loop, loopQ,
                   runLoopPc, stopPc, sess, recording, created, calls, raised, sig, unitVars>>
    /\ faults' = faults + 1

\* The probe raises: lines 946-949, the task suspends in asyncio.sleep(5).
TaskProbeError(t) ==
    /\ faults < MaxFaults
    /\ task[t].pc = "probing"
    /\ busy' = [busy EXCEPT ![task[t].rec] = NoTask]
    /\ task' = [task EXCEPT ![t].pc = "sleep5"]
    /\ UNCHANGED <<guiVars, config, running, started, tasks, loop, loopQ,
                   runLoopPc, stopPc, sess, recording, created, calls, raised, sig, unitVars>>
    /\ faults' = faults + 1

\* Line 949 returns and the five seconds stand for the interval wait: the
\* task goes back to the top of its loop.
TaskSleep5DoneNoWait(t) ==
    /\ CanStep(t) /\ task[t].cancel = "no"
    /\ task[t].pc = "sleep5"
    /\ task' = [task EXCEPT ![t].pc = LoopTop(task[t].rec), ![t].wait = 0]
    /\ UNCHANGED <<guiVars, recVars, envVars, sess, recording>>

\* Line 949 returns: run() returns and the task enters the interval wait.
TaskSleep5Done(t) ==
    /\ CanStep(t) /\ task[t].cancel = "no"
    /\ task[t].pc = "sleep5"
    /\ task' = [task EXCEPT ![t].pc = EnterWait(t).pc, ![t].wait = EnterWait(t).wait]
    /\ UNCHANGED <<guiVars, recVars, envVars, sess, recording>>

\* run_record has returned and the task goes back to the top of its loop
\* without the wait of lines 340-346.
TaskCaptureReturnNoWait(t) ==
    /\ CanStep(t) /\ task[t].cancel = "no"
    /\ task[t].pc = "capture"
    /\ sess[task[t].sess].pc = "done"
    /\ task' = [task EXCEPT ![t].pc = LoopTop(task[t].rec), ![t].wait = 0,
                            ![t].sess = NoSess]
    /\ UNCHANGED <<guiVars, recVars, envVars, sess, recording>>

\* run_record has returned: line 936, run() returns, interval wait.
TaskCaptureReturn(t) ==
    /\ CanStep(t) /\ task[t].cancel = "no"
    /\ task[t].pc = "capture"
    /\ sess[task[t].sess].pc = "done"
    /\ task' = [task EXCEPT ![t].pc = EnterWait(t).pc, ![t].wait = EnterWait(t).wait,
                            ![t].sess = NoSess]
    /\ UNCHANGED <<guiVars, recVars, envVars, sess, recording>>

\* The expiry of the 300 s ceiling if TimeoutError were not caught at line
\* 328: the exception would reach line 351 and, not caught there either,
\* end the coroutine.
TaskTimeout300Ends(t) ==
    /\ faults < MaxFaults
    /\ CanStep(t) /\ task[t].cancel = "no"
    /\ task[t].pc = "capture"
    /\ sess[task[t].sess].pc # "done"
    /\ task' = [task EXCEPT ![t].pc = "done", ![t].wait = 0, ![t].sess = NoSess]
    /\ UNCHANGED <<guiVars, recVars, calls, raised, sig, unitVars, sess, recording>>
    /\ faults' = faults + 1

\* wait_for(recorder.run(), timeout=300) expires while the task waits for
\* the capture thread (lines 323-329): run() is cancelled at its await, the
\* thread of to_thread is not; the task goes on to the interval wait.
TaskTimeout300(t) ==
    /\ faults < MaxFaults
    /\ CanStep(t) /\ task[t].cancel = "no"
    /\ task[t].pc = "capture"
    /\ sess[task[t].sess].pc # "done"
    /\ task' = [task EXCEPT ![t].pc = EnterWait(t).pc, ![t].wait = EnterWait(t).wait,
                            ![t].sess = NoSess]
    /\ UNCHANGED <<guiVars, recVars, calls, raised, sig, unitVars, sess, recording>>
    /\ faults' = faults + 1

\* The interval wait if it were one sleep of the whole interval, counted in
\* seconds, with no test of self.running between the seconds.
TaskIntervalTickFullWait(t) ==
    /\ CanStep(t) /\ task[t].cancel = "no"
    /\ task[t].pc = "interval"
    /\ LET r == task[t].rec
           n == UserRecord(task[t].user).interval
       IN  task' = [task EXCEPT
                ![t].pc = IF task[t].wait >= n THEN LoopTop(r) ELSE "interval",
                ![t].wait = IF task[t].wait >= n THEN 0 ELSE @ + 1]
    /\ UNCHANGED <<guiVars, recVars, envVars, sess, recording>>

\* Lines 340-346 and 313: a sleep(1) of the interval wait returns; the next
\* slice, or the end of the wait and the next cycle, or out of the loop.
TaskIntervalTick(t) ==
    /\ CanStep(t) /\ task[t].cancel = "no"
    /\ task[t].pc = "interval"
    /\ LET r == task[t].rec
           n == UserRecord(task[t].user).interval
       IN  task' = [task EXCEPT
                ![t].pc = IF task[t].wait >= n THEN LoopTop(r)
                          ELSE IF ~running[r] THEN "done" ELSE "interval",
                ![t].wait = IF task[t].wait >= n \/ ~running[r] THEN 0 ELSE @ + 1]
    /\ UNCHANGED <<guiVars, recVars, envVars, sess, recording>>

\* ------------------------------------- run_record, on its capture thread
\* The handler of the outer try (lines 570-592), entered with session s:
\* whatever pair the registry holds under the URL is closed and deleted.
\* run_record has returned: its thread and its task are no more tied to it.
Returned(sr) == [sr EXCEPT !.pc = "done", !.task = NoTask, !.userStopped = FALSE]

OuterExceptSess(s) ==
    LET e == recording[sess[s].url]
    IN  IF e = NoSess THEN [sess EXCEPT ![s] = Returned(@)]
        ELSE [[sess EXCEPT ![e].stream = CloseStream(@),
                           ![e].output = CloseOutput(@)] EXCEPT ![s] = Returned(@)]

OuterExceptRecording(s) == [recording EXCEPT ![sess[s].url] = NoSess]

\* Lines 451-527 without an exception: open_stream returns the opened
\* stream, the output is created, the pair is stored under url, the output
\* is opened, the timer is armed when the duration gives a timeout, and
\* StreamRunner.run starts.
S_Begin(s) ==
    /\ sess[s].pc = "opening"
    /\ LET rec == UserRecord(sess[s].user)
       IN  sess' = [sess EXCEPT
                ![s].pc = "running",
                ![s].stream = "open",
                ![s].output = "open",
                ![s].timer = IF TimerSeconds(rec.duration, rec.duration_unit) > 0
                             THEN "armed" ELSE "none"]
    /\ recording' = [recording EXCEPT ![sess[s].url] = s]
    /\ UNCHANGED <<guiVars, recVars, envVars, task>>

\* Lines 451-462 raise (mkdir, open_stream): outer handler.
S_OpenStreamFail(s) ==
    /\ faults < MaxFaults
    /\ sess[s].pc = "opening"
    /\ sess' = OuterExceptSess(s)
    /\ recording' = OuterExceptRecording(s)
    /\ UNCHANGED <<guiVars, recVars, calls, raised, sig, unitVars, task>>
    /\ faults' = faults + 1

\* open_stream returns and line 466 raises: outer handler, which knows
\* nothing of stream_fd.
S_CreateOutputFail(s) ==
    /\ faults < MaxFaults
    /\ sess[s].pc = "opening"
    /\ sess' = [OuterExceptSess(s) EXCEPT ![s].stream = "open"]
    /\ recording' = OuterExceptRecording(s)
    /\ UNCHANGED <<guiVars, recVars, calls, raised, sig, unitVars, task>>
    /\ faults' = faults + 1

\* The pair is stored (line 470) and output.open() raises (line 492): inner
\* handler (537), then the finally of line 539.
S_OutputOpenFail(s) ==
    /\ faults < MaxFaults
    /\ sess[s].pc = "opening"
    /\ sess' = [sess EXCEPT ![s].pc = "cleanup", ![s].stream = "open",
                            ![s].output = "created"]
    /\ recording' = [recording EXCEPT ![sess[s].url] = s]
    /\ UNCHANGED <<guiVars, recVars, calls, raised, sig, unitVars, task>>
    /\ faults' = faults + 1

\* timer.cancel(), line 530: stops a timer that has not fired.
CancelTimer(tm) == IF tm = "armed" THEN "cancelled" ELSE tm

\* StreamRunner.run returns or raises because the stream ended or failed
\* by itself (lines 527, 533).
S_StreamEnds(s) ==
    /\ sess[s].pc = "running"
    /\ sess[s].stream = "open" /\ sess[s].output = "open"
    /\ sess' = [sess EXCEPT ![s].pc = "cleanup", ![s].timer = CancelTimer(@)]
    /\ UNCHANGED <<guiVars, recVars, envVars, task, recording>>

\* StreamRunner.run returns or raises because the stream or the output was
\* closed under it.
S_RunnerStops(s) ==
    /\ sess[s].pc = "running"
    /\ sess[s].stream # "open" \/ sess[s].output # "open"
    /\ sess' = [sess EXCEPT ![s].pc = "cleanup", ![s].timer = CancelTimer(@)]
    /\ UNCHANGED <<guiVars, recVars, envVars, task, recording>>

\* Lines 545-560: the closes of the finally, and its test `url in recording`.
S_Cleanup(s) ==
    /\ sess[s].pc = "cleanup"
    /\ LET closed == [sess[s] EXCEPT
                !.output = IF @ \in {"open", "closed"} /\ ~OutputClosedAttr(@)
                           THEN CloseOutput(@) ELSE @,
                !.stream = IF ~StreamClosedAttr(@) THEN CloseStream(@) ELSE @]
       IN  sess' = [sess EXCEPT ![s] = IF recording[sess[s].url] # NoSess
                                       THEN [closed EXCEPT !.pc = "del"]
                                       ELSE Returned(closed)]
    /\ UNCHANGED <<guiVars, recVars, envVars, task, recording>>

\* Line 562: del recording[url]; a KeyError goes to the outer handler.
S_Del(s) ==
    /\ sess[s].pc = "del"
    /\ sess' = [sess EXCEPT ![s] = Returned(@)]
    /\ recording' = [recording EXCEPT ![sess[s].url] = NoSess]
    /\ UNCHANGED <<guiVars, recVars, envVars, task>>

\* ------------------------------------------------ the threading.Timer
\* Timer.run: the wait of `timeout` seconds has ended and the timer was
\* not cancelled (line 523).
T_Fire(s) ==
    /\ sess[s].timer = "armed"
    /\ sess' = [sess EXCEPT ![s].timer = "handler"]
    /\ UNCHANGED <<guiVars, recVars, envVars, task, recording>>

\* timeout_handler (lines 505-520): the stream is closed, then the
\* timeout_callback of Kwai.run (916-924) calls the GUI callback the
\* recorder was constructed with, when there is one.
T_Handler(s) ==
    /\ sess[s].timer = "handler"
    /\ sess' = [sess EXCEPT ![s].stream = CloseStream(@), ![s].timer = "done"]
    /\ cbPc' = IF config[sess[s].rec].callback THEN [cbPc EXCEPT ![s] = "call"] ELSE cbPc
    /\ UNCHANGED <<recVars, envVars, task, recording,
                   guiRecording, guiRecorder, recordThread,
                   userRecorders, userStatus, userThread>>

\* ------------------------------------------------------- specifications
\* The steps of a monitoring task, of a capture thread and of its timer
\* when nothing fails, and the steps that a failure or the expiry of the
\* 300 s ceiling brings.
TaskRun(t) ==
    \/ TaskFirstStep(t) \/ TaskCancelled(t)
    \/ TaskProbeBegin(t) \/ TaskProbeLive(t) \/ TaskProbeNotLive(t)
    \/ TaskCaptureReturn(t) \/ TaskIntervalTick(t)

TaskFault(t) == TaskProbeError(t) \/ TaskSleep5Done(t) \/ TaskTimeout300(t)

TaskStep(t) == TaskRun(t) \/ TaskFault(t)

SessRun(s) ==
    \/ S_Begin(s) \/ S_StreamEnds(s) \/ S_RunnerStops(s)
    \/ S_Cleanup(s) \/ S_Del(s)
    \/ T_Fire(s) \/ T_Handler(s)

SessFault(s) == S_OpenStreamFail(s) \/ S_CreateOutputFail(s) \/ S_OutputOpenFail(s)

SessStep(s) == SessRun(s) \/ SessFault(s)

Next ==
    \/ start("g") \/ RunLoopCreateTasks("g") \/ RunLoopForever("g")
    \/ StopBegin("g") \/ StopFinish("g")
    \/ LoopCancelTasks("g") \/ LoopStop("g")
    \/ \E u \in ApiUsers : add_user("g", u)
    \/ \E u \in ApiUsers : stop_user("g", u)
    \/ \E t \in TaskIds : TaskStep(t)
    \/ \E s \in SessIds : SessStep(s)

Spec == Init /\ [][Next]_vars

\* The same program started on a configuration whose one user has an
\* interval that is not positive.
IntervalUserLists == {<<4>>, <<5>>}

InitInterval ==
    /\ InitCommon
    /\ sig = NoSig
    /\ IdleUnits
    /\ \E ul \in IntervalUserLists :
          config = [r \in Recorders |->
                      IF r = "g" THEN [hasProxy |-> TRUE, user |-> ul,
                                       callback |-> FALSE, version |-> 0]
                      ELSE NoConfig]

IntervalSpec == InitInterval /\ [][Next]_vars

\* ------------------------------------------------------------- the GUI
\* The GUI owns one recorder for "record all" (self.recorder, here "g") and
\* one recorder per user it records separately (self.user_recorders; here
\* one such recorder, "p").  Both kinds share the registry `recording`,
\* which is a global of live_recorder.py.

\* The user lists export_config returns (config_manager.py:227-236) when
\* "record all" is pressed: the store holds user 1.
GuiUserLists == {<<1>>}

\* The users a per-user recording is started for: any user of the store at
\* that moment (user 2 is added to the store while recorders run,
\* gui.py:605).
GuiUsers == {1, 2}

\* toggle_recording, lines 1128-1180: the configuration is copied from the
\* store ('proxy' only if the store has the key), no callback is passed, and
\* the thread of record_task is started.
toggle_recording ==
    /\ ~guiRecording
    /\ config["g"] = NoConfig
    /\ guiRecording' = TRUE
    /\ recordThread' = "new"
    /\ \E hp \in BOOLEAN, ul \in GuiUserLists :
          config' = [config EXCEPT !["g"] = [hasProxy |-> hp, user |-> ul, callback |-> FALSE, version |-> 0]]
    /\ UNCHANGED <<running, started, tasks, loop, loopQ, busy, runLoopPc, stopPc,
                   task, sess, recording, created, envVars,
                   guiRecorder, userRecorders, userStatus, userThread, cbPc>>

\* record_task, lines 1160-1161: self.recorder = LiveRecorder(...) and its
\* start(); run_loop() follows (RunLoopCreateTasks, RunLoopForever).
record_task ==
    /\ recordThread = "new"
    /\ recordThread' = "started"
    /\ guiRecorder' = "g"
    /\ StartCall("g")
    /\ UNCHANGED <<guiRecording, userRecorders, userStatus, userThread, cbPc>>

\* toggle_user_recording (785-813) on a user that is not recorded:
\* start_user_recording and _start_user_recording_task, lines 815-946: a
\* single-user configuration with the key 'proxy' and the GUI callback, the
\* thread of create_recorder_and_start, and the status of the user.
start_user_recording(u) ==
    /\ ~userStatus[u]
    /\ config["p"] = NoConfig
    /\ config' = [config EXCEPT !["p"] = [hasProxy |-> TRUE, user |-> <<u>>, callback |-> TRUE, version |-> 0]]
    /\ userThread' = [userThread EXCEPT ![u] = "new"]
    /\ userStatus' = [userStatus EXCEPT ![u] = TRUE]
    /\ UNCHANGED <<running, started, tasks, loop, loopQ, busy, runLoopPc, stopPc,
                   task, sess, recording, created, envVars,
                   guiRecording, guiRecorder, recordThread, userRecorders, cbPc>>

\* create_recorder_and_start, lines 899-900: the recorder is made and started.
UserThreadStart(u) ==
    /\ userThread[u] = "new"
    /\ userThread' = [userThread EXCEPT ![u] = "started"]
    /\ StartCall("p")
    /\ UNCHANGED <<guiRecording, guiRecorder, recordThread, userRecorders, userStatus, cbPc>>

\* Line 903: self.user_recorders[user_id] = recorder.
UserThreadSave(u) ==
    /\ userThread[u] = "started"
    /\ userThread' = [userThread EXCEPT ![u] = "loop"]
    /\ userRecorders' = [userRecorders EXCEPT ![u] = "p"]
    /\ UNCHANGED <<recVars, envVars, task, sess, recording,
                   guiRecording, guiRecorder, recordThread, userStatus, cbPc>>

\* Lines 906-908: run_loop() of the user's recorder, its first part.
UserRunLoop(u) ==
    /\ userThread[u] = "loop"
    /\ RunLoopCreateTasks("p")

\* Lines 913-919: run_loop has returned, the finally clears the user.
UserThreadFinally(u) ==
    /\ userThread[u] = "loop"
    /\ runLoopPc["p"] = "returned"
    /\ userThread' = [userThread EXCEPT ![u] = "ended"]
    /\ userStatus' = [userStatus EXCEPT ![u] = FALSE]
    /\ userRecorders' = [userRecorders EXCEPT ![u] = "none"]
    /\ UNCHANGED <<recVars, envVars, task, sess, recording,
                   guiRecording, guiRecorder, recordThread, cbPc>>

\* toggle_user_recording on a recorded user: stop_user_recording, lines
\* 1069-1105.  The stop thread calls recorder.stop() (up to its sleep; the
\* rest is StopFinish), the reference is deleted and the status cleared.
stop_user_recording(u) ==
    /\ userStatus[u]
    /\ userStatus' = [userStatus EXCEPT ![u] = FALSE]
    /\ IF userRecorders[u] # "none"
       THEN /\ StopCall(userRecorders[u])
            /\ userRecorders' = [userRecorders EXCEPT ![u] = "none"]
       ELSE UNCHANGED <<recVars, envVars, task, sess, recording, userRecorders>>
    /\ UNCHANGED <<guiRecording, guiRecorder, recordThread, userThread, cbPc>>

\* gui_timeout_callback, lines 851-858, on the timer thread of session s:
\* with a global recorder, its stop() is called; without one, lines 874-876
\* clear the status of the user.
CallbackStop(s) ==
    /\ cbPc[s] = "call"
    /\ IF guiRecorder # "none"
       THEN /\ StopCall(guiRecorder)
            /\ cbPc' = [cbPc EXCEPT ![s] = "wait"]
            /\ UNCHANGED userStatus
       ELSE /\ cbPc' = [cbPc EXCEPT ![s] = "none"]
            /\ userStatus' = [userStatus EXCEPT ![sess[s].user] = FALSE]
            /\ UNCHANGED <<recVars, envVars, task, sess, recording>>
    /\ UNCHANGED <<guiRecording, guiRecorder, recordThread, userRecorders, userThread>>

\* gui_timeout_callback, lines 860-876: stop() has returned; the reference
\* to the global recorder and the flags are cleared.
CallbackFinish(s) ==
    /\ cbPc[s] = "wait"
    /\ \A r \in Recorders : stopPc[r] = "idle"
    /\ cbPc' = [cbPc EXCEPT ![s] = "none"]
    /\ guiRecorder' = "none"
    /\ guiRecording' = FALSE
    /\ userStatus' = [userStatus EXCEPT ![sess[s].user] = FALSE]
    /\ UNCHANGED <<recVars, envVars, task, sess, recording,
                   recordThread, userRecorders, userThread>>

\* LiveRecorderApp.__init__, lines 73-79: no recorder exists.  The runs of
\* GuiSpec are those in which no call fails and no cycle reaches the 300 s
\* ceiling (TaskRun, SessRun).
\* update_config if it made the new configuration reach the running tasks
\* by cancelling them, for run_loop to make them again.
update_config_restarting(r, hp) ==
    /\ config' = [config EXCEPT ![r].version = @ + 1, ![r].hasProxy = hp]
    /\ task' = [t \in TaskIds |->
                  IF t \in SeqToSet(tasks[r]) /\ task[t].pc # "done"
                  THEN [task[t] EXCEPT !.cancel = IF @ = "no" THEN "stop" ELSE @]
                  ELSE task[t]]
    /\ UNCHANGED <<running, started, tasks, loop, loopQ, busy,
                   runLoopPc, stopPc, sess, recording, created>>

\* LiveRecorder.update_config, lines 81-100: self.config is bound to the
\* new dictionary and the orchestrator's own proxy and output are set from
\* it; the recorder instances of the tasks are not touched.
update_config(r, hp) ==
    /\ config' = [config EXCEPT ![r].version = @ + 1, ![r].hasProxy = hp]
    /\ UNCHANGED <<running, started, tasks, loop, loopQ, busy,
                   runLoopPc, stopPc, task, sess, recording, created>>

\* on_proxy_changed and on_output_changed (gui.py 403-426) through
\* update_recorder_config (428-435): with "record all" on and a recorder,
\* a fresh export_config() is handed to update_config.  hp: the store has a
\* proxy after the change.
update_recorder_config ==
    /\ guiRecording /\ guiRecorder # "none"
    /\ config[guiRecorder].version < MaxUpdates
    /\ \E hp \in {config[guiRecorder].hasProxy, TRUE} : update_config(guiRecorder, hp)
    /\ UNCHANGED <<guiVars, envVars>>

\* The settings a probe of task t is made with: the proxy its recorder's
\* config_manager reads (line 830).
ProbeSettings(t) == task[t].settings

\* The settings the capture of task t is made with: the proxy of
\* get_streamlink (line 425) and the output directory of run_record (451).
CaptureSettings(t) == task[t].settings

InitGui ==
    /\ InitCommon
    /\ sig = NoSig
    /\ IdleUnits
    /\ config = [r \in Recorders |-> NoConfig]

GuiNext ==
    \/ toggle_recording
    \/ record_task
    \/ RunLoopCreateTasks("g")
    \/ \E u \in GuiUsers : start_user_recording(u)
    \/ \E u \in GuiUsers : UserThreadStart(u)
    \/ \E u \in GuiUsers : UserThreadSave(u)
    \/ \E u \in GuiUsers : UserRunLoop(u)
    \/ \E u \in GuiUsers : UserThreadFinally(u)
    \/ \E u \in GuiUsers : stop_user_recording(u)
    \/ update_recorder_config
    \/ \E r \in Recorders : RunLoopForever(r)
    \/ \E r \in Recorders : StopFinish(r)
    \/ \E r \in Recorders : LoopCancelTasks(r)
    \/ \E r \in Recorders : LoopStop(r)
    \/ \E t \in TaskIds : TaskRun(t)
    \/ \E s \in SessIds : SessRun(s)
    \/ \E s \in SessIds : CallbackStop(s)
    \/ \E s \in SessIds : CallbackFinish(s)

GuiSpec == InitGui /\ [][GuiNext]_vars

\* ------------------------------------------- two calls of create_signature
\* A first call with arguments (q1, b1) and a second one whose arguments
\* (q2, b2) are those of the first after at most MaxEdits changes: another
\* order of the pairs, an excluded parameter set or removed, another value
\* of a parameter.
progVarsCore == <<guiVars, recVars, task, sess, recording, faults, calls, raised>>

progVars == <<progVarsCore, unitVars>>

InitSig ==
    /\ InitCommon
    /\ IdleUnits
    /\ config = [r \in Recorders |-> NoConfig]
    /\ \E q \in ItemLists(QueryKeys, 1), b \in ItemLists(BodyKeys, 0) :
          sig = [NoSig EXCEPT !.q1 = q, !.b1 = b, !.q2 = q, !.b2 = b]

CanEdit == sig.out2 = NoDigest /\ sig.edits < MaxEdits

Swap(list, i, j) ==
    [n \in 1..Len(list) |-> IF n = i THEN list[j] ELSE IF n = j THEN list[i] ELSE list[n]]

ReorderQuery ==
    /\ CanEdit
    /\ \E i, j \in 1..Len(sig.q2) :
          i < j /\ sig' = [sig EXCEPT !.q2 = Swap(@, i, j), !.edits = @ + 1]
    /\ UNCHANGED progVars

ReorderBody ==
    /\ CanEdit
    /\ \E i, j \in 1..Len(sig.b2) :
          i < j /\ sig' = [sig EXCEPT !.b2 = Swap(@, i, j), !.edits = @ + 1]
    /\ UNCHANGED progVars

SetExcludedInQuery ==
    /\ CanEdit
    /\ \E v \in Values :
          /\ DictSet(sig.q2, NsSig3Key, v) # sig.q2
          /\ sig' = [sig EXCEPT !.q2 = DictSet(@, NsSig3Key, v), !.edits = @ + 1]
    /\ UNCHANGED progVars

RemoveExcludedFromQuery ==
    /\ CanEdit
    /\ Len(sig.q2) >= 2
    /\ \E i \in 1..Len(sig.q2) : sig.q2[i].k \in ExcludedKeys
    /\ sig' = [sig EXCEPT !.q2 = SelectSeq(@, LAMBDA e : e.k \notin ExcludedKeys),
                          !.edits = @ + 1]
    /\ UNCHANGED progVars

SetExcludedInBody ==
    /\ CanEdit
    /\ \E v \in Values :
          /\ DictSet(sig.b2, SigKey, v) # sig.b2
          /\ sig' = [sig EXCEPT !.b2 = DictSet(@, SigKey, v), !.edits = @ + 1]
    /\ UNCHANGED progVars

RemoveExcludedFromBody ==
    /\ CanEdit
    /\ \E i \in 1..Len(sig.b2) : sig.b2[i].k \in ExcludedKeys
    /\ sig' = [sig EXCEPT !.b2 = SelectSeq(@, LAMBDA e : e.k \notin ExcludedKeys),
                          !.edits = @ + 1]
    /\ UNCHANGED progVars

ChangeQueryValue ==
    /\ CanEdit
    /\ \E i \in 1..Len(sig.q2), v \in Values :
          /\ sig.q2[i].k \notin ExcludedKeys /\ v # sig.q2[i].v
          /\ sig' = [sig EXCEPT !.q2[i].v = v, !.edits = @ + 1]
    /\ UNCHANGED progVars

ChangeBodyValue ==
    /\ CanEdit
    /\ \E i \in 1..Len(sig.b2), v \in Values :
          /\ sig.b2[i].k \notin ExcludedKeys /\ v # sig.b2[i].v
          /\ sig' = [sig EXCEPT !.b2[i].v = v, !.edits = @ + 1]
    /\ UNCHANGED progVars

\* sig = await self.create_signature(query, data), line 811.
SignFirst ==
    /\ sig.q1 # <<>> /\ sig.out1 = NoDigest
    /\ sig' = [sig EXCEPT !.out1 = create_signature(QueryString(sig.q1), sig.b1)]
    /\ UNCHANGED progVars

SignSecond ==
    /\ sig.q2 # <<>> /\ sig.out2 = NoDigest
    /\ sig' = [sig EXCEPT !.out2 = create_signature(QueryString(sig.q2), sig.b2)]
    /\ UNCHANGED progVars

SigNext ==
    \/ ReorderQuery \/ ReorderBody
    \/ SetExcludedInQuery \/ RemoveExcludedFromQuery
    \/ SetExcludedInBody \/ RemoveExcludedFromBody
    \/ ChangeQueryValue \/ ChangeBodyValue
    \/ SignFirst \/ SignSecond

SigSpec == InitSig /\ [][SigNext]_vars

\* ------------------------------------------- the settings of one recorder
\* A key a dictionary does not carry.
Absent == "absent"

\* dict.get(key, default) on the value d holds under the key.
Get(d, default) == IF d = Absent THEN default ELSE d

\* The values 'proxy' and 'output' take in a configuration and in a user
\* record.
GlobalProxies == {Absent, "proxy-g1", "proxy-g2"}
GlobalOutputs == {Absent, "out-g"}
UserProxies == {Absent, "proxy-u"}
UserOutputs == {Absent, "out-u"}

\* A value no call has set yet.
Unset == "unset"

\* Kwai(config, user) is about to be called with these two dictionaries.
InitBuilt ==
    /\ InitCommon
    /\ sig = NoSig
    /\ armed = Idle /\ store = Idle /\ writer = Idle
    /\ config = [r \in Recorders |-> NoConfig]
    /\ \E gp \in GlobalProxies, go \in GlobalOutputs,
          up \in UserProxies, uo \in UserOutputs :
          built = [cfgProxy |-> gp, cfgOutput |-> go, userProxy |-> up,
                   userOutput |-> uo, phase |-> "args",
                   proxy |-> Unset, output |-> Unset, client |-> Unset,
                   probeProxy |-> Unset, streamProxy |-> Unset, dir |-> Unset]

\* _init_recorder, lines 173-174, and get_client, 384-388: the proxy and the
\* output of the instance, and the proxy its httpx client is made with.
init_recorder(b) ==
    [b EXCEPT !.proxy = Get(b.userProxy, Get(b.cfgProxy, "None")),
              !.output = Get(b.userOutput, Get(b.cfgOutput, "output")),
              !.client = Get(b.userProxy, Get(b.cfgProxy, "None"))]

\* Kwai.__init__, lines 755-764: after LiveRecorder.__init__ has run
\* _init_recorder, self.proxy = config['proxy'] (a KeyError when the
\* configuration has no proxy).
KwaiInit(b) ==
    IF b.cfgProxy = Absent THEN [init_recorder(b) EXCEPT !.phase = "KeyError"]
    ELSE [init_recorder(b) EXCEPT !.proxy = b.cfgProxy, !.phase = "built"]

Construct ==
    /\ built.phase = "args"
    /\ built' = KwaiInit(built)
    /\ UNCHANGED <<progVarsCore, sig, armed, store, writer>>

\* Kwai.user_search, lines 829-855: the probe is posted through the proxy
\* config_manager.get_global_config('proxy') returns, which is config.get
\* of the constructor's dictionary (762-764).
user_search ==
    /\ built.phase = "built" /\ built.probeProxy = Unset
    /\ built' = [built EXCEPT !.probeProxy = Get(built.cfgProxy, "None")]
    /\ UNCHANGED <<progVarsCore, sig, armed, store, writer>>

\* get_streamlink, lines 416-432: the capture's session takes self.proxy.
get_streamlink ==
    /\ built.phase = "built" /\ built.streamProxy = Unset
    /\ built' = [built EXCEPT !.streamProxy = built.proxy]
    /\ UNCHANGED <<progVarsCore, sig, armed, store, writer>>

\* run_record, lines 450-453: the file is made under Path(self.output).
OutputDir ==
    /\ built.phase = "built" /\ built.dir = Unset
    /\ built' = [built EXCEPT !.dir = built.output]
    /\ UNCHANGED <<progVarsCore, sig, armed, store, writer>>

BuiltNext == Construct \/ user_search \/ get_streamlink \/ OutputDir

BuiltSpec == InitBuilt /\ [][BuiltNext]_vars

\* ------------------------------------- run_record and its duration timer
\* The durations and units run_record is called with: the duration is None
\* or an integer (gui.py:579, config_manager.py:30), the unit None, the
\* empty string or a word.
MaxDuration == 4

Durations ==
    {[given |-> FALSE, value |-> 0]} \cup {[given |-> TRUE, value |-> n] : n \in 0..MaxDuration}

Units == {"None", "", "seconds", "minutes", "hours", "days"}

\* Line 473, `if duration and duration_unit`: None, 0 and '' are false.
DurationTruth(d) == IF d.given THEN d.value ELSE 0

UnitTruth(u) == IF u \in {"None", ""} THEN "none" ELSE u

InitArmed ==
    /\ InitCommon
    /\ sig = NoSig
    /\ built = Idle /\ store = Idle /\ writer = Idle
    /\ config = [r \in Recorders |-> NoConfig]
    /\ \E d \in Durations, u \in Units :
          armed = [duration |-> d, unit |-> u, phase |-> "called",
                   timeout |-> 0, fired |-> FALSE]

\* Lines 473-523: the timeout is computed and, when it is not zero or None
\* (line 500), a threading.Timer of that many seconds is started.
ArmTimer ==
    /\ armed.phase = "called"
    /\ LET timeout == TimerSeconds(DurationTruth(armed.duration), UnitTruth(armed.unit))
       IN  armed' = [armed EXCEPT !.timeout = timeout,
                                  !.phase = IF timeout # 0 THEN "armed" ELSE "unbounded"]
    /\ UNCHANGED <<progVarsCore, sig, built, store, writer>>

\* The timer's seconds have passed: timeout_handler runs (503-520).
TimerElapses ==
    /\ armed.phase = "armed" /\ ~armed.fired
    /\ armed' = [armed EXCEPT !.fired = TRUE]
    /\ UNCHANGED <<progVarsCore, sig, built, store, writer>>

\* StreamRunner.run returns (lines 526-534), with a timer or without.
RunnerReturns ==
    /\ armed.phase \in {"armed", "unbounded"}
    /\ armed' = [armed EXCEPT !.phase = "ended"]
    /\ UNCHANGED <<progVarsCore, sig, built, store, writer>>

ArmedNext == ArmTimer \/ TimerElapses \/ RunnerReturns

ArmedSpec == InitArmed /\ [][ArmedNext]_vars

\* ------------------------------------------------------------ fairness
\* The steps the program takes by itself once they are possible: a coroutine
\* that can be resumed is resumed by the running loop, a thread that can
\* run runs, an armed timer fires.  Calls of the API, the end of a stream
\* on the remote side and the 300 s ceiling are not scheduled by the
\* program and carry no fairness.
TaskProgramStep(t) ==
    \/ TaskFirstStep(t)
    \/ TaskCancelled(t)
    \/ TaskProbeBegin(t)
    \/ TaskProbeLive(t)
    \/ TaskProbeNotLive(t)
    \/ TaskProbeError(t)
    \/ TaskSleep5Done(t)
    \/ TaskCaptureReturn(t)
    \/ TaskIntervalTick(t)

SessProgramStep(s) ==
    \/ S_Begin(s)
    \/ S_OpenStreamFail(s)
    \/ S_CreateOutputFail(s)
    \/ S_OutputOpenFail(s)
    \/ S_RunnerStops(s)
    \/ S_Cleanup(s)
    \/ S_Del(s)

TimerProgramStep(s) == T_Fire(s) \/ T_Handler(s)

Fairness ==
    /\ WF_vars(RunLoopCreateTasks("g") \/ RunLoopForever("g"))
    /\ WF_vars(StopFinish("g"))
    /\ WF_vars(LoopCancelTasks("g") \/ LoopStop("g"))
    /\ \A t \in TaskIds : WF_vars(TaskProgramStep(t))
    /\ \A s \in SessIds : WF_vars(SessProgramStep(s))
    /\ \A s \in SessIds : WF_vars(TimerProgramStep(s))

FairSpec == Init /\ [][Next]_vars /\ Fairness

\* The program started on one configuration, with the scheduling of the
\* event loop: the ready queue of asyncio is first in, first out, so a
\* coroutine that can be resumed again and again is resumed, whatever the
\* other coroutines do with the loop thread in between.
InitCycle ==
    /\ InitCommon
    /\ sig = NoSig
    /\ IdleUnits
    /\ config = [r \in Recorders |->
                   IF r = "g" THEN [hasProxy |-> TRUE, user |-> <<1>>,
                                    callback |-> FALSE, version |-> 0]
                   ELSE NoConfig]

CycleFairness ==
    /\ WF_vars(RunLoopCreateTasks("g") \/ RunLoopForever("g"))
    /\ WF_vars(StopFinish("g"))
    /\ WF_vars(LoopCancelTasks("g") \/ LoopStop("g"))
    /\ \A t \in TaskIds : SF_vars(TaskProgramStep(t))
    /\ \A s \in SessIds : WF_vars(SessProgramStep(s))
    /\ \A s \in SessIds : WF_vars(TimerProgramStep(s))

CycleFairSpec == InitCycle /\ [][Next]_vars /\ CycleFairness

\* The GUI world with the scheduling of its threads: a thread that was
\* started runs, a running loop resumes its coroutines and runs what was
\* queued on it, a capture thread and an armed timer go on.  The buttons
\* and the end of a stream on the remote side carry no fairness.
GuiFairness ==
    /\ WF_vars(record_task \/ RunLoopCreateTasks("g"))
    /\ \A u \in GuiUsers :
          WF_vars(UserThreadStart(u) \/ UserThreadSave(u) \/ UserRunLoop(u)
                  \/ UserThreadFinally(u))
    /\ \A r \in Recorders : WF_vars(RunLoopForever(r))
    /\ \A r \in Recorders : WF_vars(StopFinish(r))
    /\ \A r \in Recorders : WF_vars(LoopCancelTasks(r) \/ LoopStop(r))
    /\ \A t \in TaskIds : WF_vars(TaskRun(t))
    /\ \A s \in SessIds : WF_vars(S_Begin(s) \/ S_RunnerStops(s) \/ S_Cleanup(s) \/ S_Del(s))
    /\ \A s \in SessIds : WF_vars(TimerProgramStep(s))
    /\ \A s \in SessIds : WF_vars(CallbackStop(s) \/ CallbackFinish(s))

GuiFairSpec == InitGui /\ [][GuiNext]_vars /\ GuiFairness

\* ------------------------------------------------- the ConfigManager
\* The SQLite database of config_manager.py: the table global_config (key,
\* value) and the table users (id, platform, name, interval, duration,
\* duration_unit), lines 23-40.  Null is SQL NULL, Python None.
Null == "NULL"
NullInt == [given |-> FALSE, value |-> 0]
IntOf(n) == [given |-> TRUE, value |-> n]

\* The column defaults of lines 30-31.
DefaultDuration == IntOf(120)
DefaultUnit == "minutes"

StoreIds == {1, 2}

\* A row of users, and the place of a row that is not there.
NoRow == [present |-> FALSE, platform |-> "", name |-> "", interval |-> 0,
          duration |-> NullInt, duration_unit |-> Null]

\* The rows add_user and update_user write (gui.py 578-587, 651-661): a
\* duration with its unit, or neither.
StoredRows ==
    {[present |-> TRUE, platform |-> "Kwai", name |-> "a", interval |-> i,
      duration |-> d[1], duration_unit |-> d[2]] :
        i \in {1, 60},
        d \in {<<NullInt, Null>>, <<IntOf(5), "seconds">>,
               <<IntOf(120), "minutes">>, <<IntOf(2), "hours">>}}

\* The values set_global_config stores under 'proxy' (gui.py 414): text.
StoredProxies == {Absent, "", "socks5://h:1"}

\* str(value), line 255, of a value of the exported dictionary: the values
\* of global_config are text, which str leaves as it is; None becomes the
\* text 'None'.
Str(v) == IF v = Null THEN "None" ELSE v

\* get_all_users, lines 203-225: the six columns of every row.
get_all_users(db) == [i \in StoreIds |-> db.users[i]]

\* export_config, lines 227-236.
export_config(db) == [proxy |-> db.proxy, user |-> get_all_users(db)]

\* import_config, lines 238-264: both tables are emptied; every key but
\* 'user' is inserted with str(value); every user is inserted with its id,
\* platform, name and interval, the other two columns taking their
\* defaults.
import_config(cfg) ==
    [proxy |-> IF cfg.proxy = Absent THEN Absent ELSE Str(cfg.proxy),
     users |-> [i \in StoreIds |->
                  IF cfg.user[i].present
                  THEN [present |-> TRUE, platform |-> cfg.user[i].platform,
                        name |-> cfg.user[i].name, interval |-> cfg.user[i].interval,
                        duration |-> DefaultDuration, duration_unit |-> DefaultUnit]
                  ELSE NoRow]]

InitStore ==
    /\ InitCommon
    /\ sig = NoSig
    /\ built = Idle /\ armed = Idle /\ writer = Idle
    /\ config = [r \in Recorders |-> NoConfig]
    /\ \E px \in StoredProxies, us \in [StoreIds -> StoredRows \cup {NoRow}] :
          LET db == [proxy |-> px, users |-> us]
          IN  store = [before |-> db, db |-> db, exported |-> export_config(db),
                       phase |-> "stored"]

Export ==
    /\ store.phase = "stored"
    /\ store' = [store EXCEPT !.exported = export_config(store.db), !.phase = "exported"]
    /\ UNCHANGED <<progVarsCore, sig, built, armed, writer>>

Import ==
    /\ store.phase = "exported"
    /\ store' = [store EXCEPT !.db = import_config(store.exported), !.phase = "imported"]
    /\ UNCHANGED <<progVarsCore, sig, built, armed, writer>>

StoreNext == Export \/ Import

StoreSpec == InitStore /\ [][StoreNext]_vars

\* ----------------------------------------------------- stream_writer
\* LiveRecorder.stream_writer(stream, url, filename), lines 698-725.  The
\* registry is seen from the call: under each URL nothing, the pair of
\* another capture, or the pair this call stored.
WriterUrls == {1, 2, 3}

InitWriter ==
    /\ InitCommon
    /\ sig = NoSig
    /\ built = Idle /\ armed = Idle /\ store = Idle
    /\ config = [r \in Recorders |-> NoConfig]
    /\ \E u \in WriterUrls, reg \in [WriterUrls -> {"none", "other"}] :
          writer = [url |-> u, phase |-> "called", stream |-> "none",
                    output |-> "created", registry |-> reg]

\* Line 703 raises: handler (710-719), finally with output_opened False.
W_OpenStreamFail ==
    /\ writer.phase = "called"
    /\ writer' = [writer EXCEPT !.phase = "returned"]
    /\ UNCHANGED <<progVarsCore, sig, built, armed, store>>

\* Line 703: open_stream returns the opened stream.
W_OpenStream ==
    /\ writer.phase = "called"
    /\ writer' = [writer EXCEPT !.phase = "opened", !.stream = "open"]
    /\ UNCHANGED <<progVarsCore, sig, built, armed, store>>

\* Line 704 raises: handler, finally with output_opened False.
W_OutputOpenFail ==
    /\ writer.phase = "opened"
    /\ writer' = [writer EXCEPT !.phase = "returned"]
    /\ UNCHANGED <<progVarsCore, sig, built, armed, store>>

\* Lines 704-708: the output is opened, the pair is stored under url and
\* StreamRunner.run starts.
W_Record ==
    /\ writer.phase = "opened"
    /\ writer' = [writer EXCEPT !.phase = "running", !.output = "open",
                                !.registry[writer.url] = "own"]
    /\ UNCHANGED <<progVarsCore, sig, built, armed, store>>

\* StreamRunner.run returns (line 709, return True) or raises (handler):
\* the finally of lines 720-725 closes the output.  Whether the runner
\* closed the stream on its way out is the library's doing: both cases.
W_RunnerEnds ==
    /\ writer.phase = "running"
    /\ \E st \in {"open", "closed"} :
          writer' = [writer EXCEPT !.phase = "returned", !.stream = st,
                                   !.output = CloseOutput(@)]
    /\ UNCHANGED <<progVarsCore, sig, built, armed, store>>

WriterNext ==
    \/ W_OpenStreamFail \/ W_OpenStream \/ W_OutputOpenFail
    \/ W_Record \/ W_RunnerEnds

WriterSpec == InitWriter /\ [][WriterNext]_vars

\* ------------------------------------------------------- stop_recording
\* LiveRecorder.stop_recording(url), lines 594-696.  A URL that is not in
\* the registry: return (596-598).  Otherwise the stream and the output of
\* the pair are closed (606-632); the list of lines 638-641 is then built
\* over threading.enumerate(), which holds the main thread, whose _target
\* is None: the expression getattr(t, '_target', None).__name__ raises
\* AttributeError outside every try, and the call ends there, before
\* recording.pop (685-688).
stop_recording(r, url) ==
    /\ config[r] # NoConfig
    /\ sess' = IF recording[url] = NoSess THEN sess
               ELSE [sess EXCEPT ![recording[url]].stream = CloseStream(@),
                                 ![recording[url]].output = CloseOutput(@)]
    /\ UNCHANGED <<guiVars, recVars, envVars, task, recording>>

RegistryNext == Next \/ \E u \in ApiUsers : stop_recording("g", u)

RegistrySpec == InitCycle /\ [][RegistryNext]_vars

\* ============================================================== claims
\* A capture session is active from the start of its thread to the return
\* of run_record.
Active(s) == sess[s].pc \notin {"free", "done"}

\* A monitoring task is running from its creation to the end of its coroutine.
Monitoring(t) == task[t].pc \notin {"free", "done"}

\* C1: every exit of run_record taken after the stream was opened leaves the
\* stream closed, the output closed if it was opened, and the session's
\* entry out of the registry.
C1_EveryExitReleases ==
    \A s \in SessIds :
        (sess[s].pc = "done" /\ sess[s].stream # "none")
            => /\ sess[s].stream = "closed"
               /\ sess[s].output # "open"
               /\ recording[sess[s].url] # s

\* C2: a task never is in a new probe/capture cycle while a capture started
\* by an earlier cycle of the same task is still running.
C2_OneCapturePerTask ==
    \A t \in TaskIds : \A s \in SessIds :
        (Active(s) /\ sess[s].task = t /\ task[t].sess # s)
            => task[t].pc \notin {"cycle", "probing", "capture"}

\* C5: once run_loop has made its tasks, there is exactly one for every
\* configured user whose platform names a recorder class, in the order of
\* the configuration.
C5_OneTaskPerConfiguredUser ==
    \A r \in Recorders :
        runLoopPc[r] \in {"created", "forever", "returned"}
            => created[r] = SelectSeq(config[r].user,
                                      LAMBDA u : UserRecord(u).platform \in PlatformClasses)

\* C6: at most one running monitoring task exists for a given user id.
C6_NoDuplicateMonitor ==
    \A t1 \in TaskIds : \A t2 \in TaskIds :
        (Monitoring(t1) /\ Monitoring(t2) /\ task[t1].user = task[t2].user) => t1 = t2

\* C7: a URL that is a key of the registry keeps its pair: a registration
\* for that URL by another session is rejected.
C7_DuplicateRejected ==
    [][\A u \in UserIds :
          recording[u] # NoSess => recording'[u] \in {recording[u], NoSess}]_vars

\* C8: a session only ever removes the entry it inserted itself.
C8_RemovesOwnEntryOnly ==
    [][\A s \in SessIds :
          (S_Del(s) \/ S_OpenStreamFail(s) \/ S_CreateOutputFail(s))
              => recording[sess[s].url] \in {s, NoSess}]_vars

\* The handles of session s are released: its stream is not open and its
\* entry is out of the registry.
Released(s) == sess[s].stream # "open" /\ recording[sess[s].url] # s

\* C3: a capture session that was in progress when stop_user cancelled its
\* monitoring task has its stream closed and its entry removed eventually,
\* the stream not having to end by itself.
C3_StopUserReachesCapture ==
    \A s \in SessIds : (Active(s) /\ sess[s].userStopped) ~> Released(s)

RegistryEmpty == \A u \in UserIds : recording[u] = NoSess

\* C4: after stop() on a running recorder the registry eventually is empty
\* and stays empty.
C4_StopEmptiesRegistry ==
    (started["g"] /\ ~running["g"]) ~> [](RegistryEmpty)

\* The steps of the duration timeout of session s: the handler of its timer
\* and the callback the handler calls.
TimeoutStep(s) == T_Handler(s) \/ CallbackStop(s) \/ CallbackFinish(s)

\* C9: the duration timeout of a session ends only that session: it stops
\* no other recorder, requests the cancellation of no monitoring task and
\* closes no other session's stream or output.
C9_TimeoutEndsOnlyItsSession ==
    [][\A s \in SessIds :
          TimeoutStep(s)
              => /\ \A r \in Recorders \ {sess[s].rec} :
                        running'[r] = running[r] /\ loopQ'[r] = loopQ[r]
                 /\ \A t \in TaskIds : task'[t].cancel = task[t].cancel
                 /\ \A x \in SessIds \ {s} :
                        /\ sess'[x].stream = sess[x].stream
                        /\ sess'[x].output = sess[x].output]_vars

\* The steps of stopping the separately recorded user: stop_user_recording
\* and the second half of the stop() it started on the user's recorder.
StopUserRecordingStep == StopFinish("p") \/ \E u \in GuiUsers : stop_user_recording(u)

\* C10: stopping the recording of one user closes only handles opened by
\* that user's recorder; the sessions of other recorders stay as they are.
C10_StopUserClosesOnlyOwn ==
    [][StopUserRecordingStep
          => \A s \in SessIds : sess[s].rec # "p" => sess'[s] = sess[s]]_vars

\* C11: stop_user(id) cancels and removes from the list every task of that
\* user, and leaves every task of every other user in the list as it is.
C11_StopUserExactlyThatUser ==
    [][\A u \in UserIds :
          (stop_user("g", u) /\ running["g"])
              => \A t \in SeqToSet(tasks["g"]) :
                    IF task[t].user = u
                    THEN /\ t \notin SeqToSet(tasks'["g"])
                         /\ task[t].pc # "done" => task'[t].cancel # "no"
                    ELSE /\ t \in SeqToSet(tasks'["g"])
                         /\ task'[t] = task[t]]_vars

\* One task, for user u, is appended to the list of recorder r and no other
\* task changes.
AddsOneTask(r, u) ==
    \E t \in TaskIds :
        /\ task[t].pc = "free"
        /\ tasks' = [tasks EXCEPT ![r] = Append(@, t)]
        /\ task'[t].pc = "new" /\ task'[t].user = u /\ task'[t].rec = r
        /\ \A x \in TaskIds \ {t} : task'[x] = task[x]

\* Nothing of the program's state changes.
AddsNothing == UNCHANGED <<recVars, task, sess, recording, guiVars>>

C13_DurationEndsSession ==
    \A s \in SessIds :
        (sess[s].pc = "running" /\ sess[s].timer = "handler")
            ~> /\ sess[s].pc = "done"
               /\ sess[s].stream = "closed" /\ sess[s].output = "closed"
               /\ recording[sess[s].url] # s

\* C14: the timeout handler of a session never runs after run_record has
\* returned, that is after the session ended by another path than its timer
\* and released its handles.
C14_NoHandlerAfterRelease ==
    [][\A s \in SessIds : T_Handler(s) => sess[s].pc # "done"]_vars

\* C15: when a session has ended, its stream and its output have each been
\* closed once by one of the paths that close them (a handle passes from
\* open to closed at most once, so a handle that was opened is then closed).
C15_EachHandleClosedOnce ==
    \A s \in SessIds :
        sess[s].pc = "done"
            => /\ sess[s].stream \in {"none", "closed"}
               /\ sess[s].output \in {"none", "created", "closed"}

\* C16: a session of a recorder that was given a callback does not end
\* without the callback: when run_record has returned, the timeout handler,
\* the one place that invokes the callback, has run or is about to.
C16_CallbackOnEveryExit ==
    \A s \in SessIds :
        (/\ sess[s].pc = "done"
         /\ config[sess[s].rec] # NoConfig
         /\ config[sess[s].rec].callback)
            => sess[s].timer \in {"handler", "done"}

\* C17: on a running recorder, a task whose cycle failed with an exception
\* or ran into the 300 s ceiling does not end: it is in the pause after the
\* error, in the interval wait or at the next cycle, and the step changes no
\* other task.
C17_FailedCycleKeepsTask ==
    [][\A t \in TaskIds :
          ((TaskProbeError(t) \/ TaskSleep5Done(t) \/ TaskTimeout300(t))
              /\ running[task[t].rec])
              => /\ task'[t].pc \in {"sleep5", "interval", "cycle"}
                 /\ task'[t].cancel = task[t].cancel
                 /\ \A x \in TaskIds \ {t} : task'[x] = task[x]]_vars

\* A task has left a capture at the 300 s ceiling and waits for its next
\* cycle while the capture it started is still running.
C17_Witness ==
    \E t \in TaskIds : \E s \in SessIds :
        /\ running[task[t].rec]
        /\ task[t].pc = "interval" /\ task[t].sess = NoSess
        /\ sess[s].task = t /\ Active(s)

\* C18: a task that is in its interval wait when stop() has been called or
\* its cancellation has been requested begins no further slice of the wait
\* and no further probe: the next step it takes is its exit.
C18_StopEndsIntervalWait ==
    [][\A t \in TaskIds :
          (task[t].pc = "interval"
              /\ (~running[task[t].rec] \/ task[t].cancel # "no"))
              => \/ task'[t].pc = "done"
                 \/ task'[t].pc = "interval" /\ task'[t].wait = task[t].wait]_vars

\* stop() has been called while a task of interval 2 is in the first slice
\* of its wait.
C18_Witness ==
    \E t \in TaskIds :
        /\ task[t].pc = "interval" /\ task[t].wait = 1
        /\ UserRecord(task[t].user).interval = 2
        /\ ~running[task[t].rec]

\* C19: while the live-detection request of one task is in flight, the
\* running event loop can run every other monitoring task of the recorder.
C19_LoopFreeDuringProbe ==
    \A t \in TaskIds : \A x \in TaskIds \ {t} :
        (/\ task[t].pc = "probing"
         /\ Monitoring(x) /\ task[x].rec = task[t].rec
         /\ loop[task[t].rec] = "running")
            => CanStep(x)

\* C20: a task whose capture is running or stalled does not hold the
\* event-loop thread: the capture is on a thread of its own, and the loop,
\* when no probe holds it, can run every other monitoring task.
C20_CaptureLeavesLoopFree ==
    \A t \in TaskIds :
        (task[t].pc = "capture" /\ loop[task[t].rec] = "running")
            => /\ busy[task[t].rec] # t
               /\ \A x \in TaskIds \ {t} :
                     (Monitoring(x) /\ task[x].rec = task[t].rec
                         /\ \A y \in TaskIds : task[y].pc # "probing")
                         => CanStep(x)

\* The task of one user is in a probe while the capture of another user's
\* task is running.
C20_Witness ==
    \E t \in TaskIds : \E x \in TaskIds \ {t} :
        /\ task[t].pc = "capture" /\ sess[task[t].sess].pc = "running"
        /\ task[x].rec = task[t].rec /\ task[x].user # task[t].user
        /\ task[x].pc = "probing"

\* C21: once stop() has been called on a started recorder, every monitoring
\* task of the recorder comes to its end and the event loop is stopped, so
\* that run_loop returns.
C21_StopEndsTasksAndLoop ==
    (started["g"] /\ ~running["g"])
        ~> /\ runLoopPc["g"] = "returned"
           /\ \A t \in TaskIds : task[t].rec = "g" => ~Monitoring(t)

\* C22: every probe and every capture that a monitoring task begins is made
\* with the settings of the configuration its recorder holds at that
\* moment, the one of the last update_config.
C22_UpdateReachesRunningTasks ==
    [][\A t \in TaskIds :
          /\ TaskProbeBegin(t) => ProbeSettings(t) = config[task[t].rec].version
          /\ TaskProbeLive(t) => CaptureSettings(t) = config[task[t].rec].version]_vars

\* C23: once run_loop has spawned the tasks of a configuration that names a
\* user of a platform without a recorder class, there is no task for that
\* user, the failure has been raised to the caller, and every other user of
\* the configuration has its task.
C23_UnknownPlatformFailsAlone ==
    \A u \in UserIds :
        (/\ runLoopPc["g"] \notin {"none", "ready"}
         /\ config["g"].hasProxy
         /\ u \in SeqToSet(config["g"].user)
         /\ UserRecord(u).platform \notin PlatformClasses)
            => /\ \A t \in TaskIds : task[t].pc # "free" => task[t].user # u
               /\ u \in raised
               /\ \A v \in SeqToSet(config["g"].user) :
                     UserRecord(v).platform \in PlatformClasses
                         => v \in SeqToSet(created["g"])

\* C24: no monitoring task probes for a user whose interval is not a
\* positive number: such a user was rejected when its task was to be
\* spawned.
C24_BadIntervalNeverProbes ==
    \A t \in TaskIds :
        task[t].pc \in {"probing", "capture"}
            => UserRecord(task[t].user).interval > 0

\* Both calls of create_signature have returned.
Signed == sig.out1 # NoDigest /\ sig.out2 # NoDigest

\* The set of the items of a list.
ItemSet(list) == {list[i] : i \in 1..Len(list)}

\* C25: two calls whose query strings hold the same pairs and whose bodies
\* hold the same entries, in whatever order, return the same signature.
C25_SignatureOrderIndependent ==
    (Signed /\ ItemSet(sig.q1) = ItemSet(sig.q2) /\ ItemSet(sig.b1) = ItemSet(sig.b2))
        => sig.out1 = sig.out2

\* Two calls that differ in the order of their pairs have returned.
C25_Witness ==
    /\ Signed
    /\ sig.q1 # sig.q2 \/ sig.b1 # sig.b2
    /\ ItemSet(sig.q1) = ItemSet(sig.q2) /\ ItemSet(sig.b1) = ItemSet(sig.b2)

KeysOf(E) == {e.k : e \in E}
ValueIn(E, k) == (CHOOSE e \in E : e.k = k).v

\* The merged parameters of a call without the three excluded ones: the
\* value of the body where the body has the key, else that of the query.
Effective(q, b) ==
    {[k |-> k, v |-> IF k \in KeysOf(ItemSet(b)) THEN ValueIn(ItemSet(b), k)
                     ELSE ValueIn(ItemSet(q), k)] :
        k \in (KeysOf(ItemSet(q)) \cup KeysOf(ItemSet(b))) \ ExcludedKeys}

\* The parameters with their values percent-decoded.
Decoded(E) == {[k |-> e.k, v |-> Unquote(e.v)] : e \in E}

\* The same keys, and another value for exactly one of them.
DifferInOne(E, F) == KeysOf(E) = KeysOf(F) /\ Cardinality(E \ F) = 1

\* key=value of the parameters E in ascending order of the keys.
RECURSIVE Concatenated(_)
Concatenated(E) ==
    IF E = {} THEN <<>>
    ELSE LET first == CHOOSE e \in E : \A f \in E \ {e} : StrLess(e.k, f.k)
         IN  first.k \o <<"=">> \o first.v \o Concatenated(E \ {first})

Opened(s) == sess[s].pc = "free" /\ sess'[s].pc # "free"

\* C27: a capture session is opened only by the step in which a probe
\* returns a live URL: the step takes the task that probed from the probe to
\* the wait for that capture, and the session is for that task's user and
\* for the URL the probe returned.  A probe that returns no URL or raises
\* opens no session and leaves the task in the interval wait or in the
\* sleep before it, and from those the task goes only to the next probe or
\* out of its loop.
C27_CaptureOnlyAfterLiveProbe ==
    [][/\ \A s \in SessIds :
             Opened(s) =>
                (\E o \in TaskIds :
                    /\ task[o].pc = "probing" /\ task'[o].pc = "capture"
                    /\ task'[o].sess = s
                    /\ sess'[s].task = o /\ sess'[s].user = task[o].user
                    /\ sess'[s].url = task[o].user)
        /\ \A t \in TaskIds :
             /\ task'[t].pc = "capture" /\ task[t].pc # "capture"
                    => task[t].pc = "probing" /\ Opened(task'[t].sess)
             /\ task[t].pc = "probing" /\ task'[t].pc \notin {"probing", "capture"}
                    => /\ task'[t].pc \in {"interval", "sleep5", "done"}
                       /\ sess' = sess
             /\ task[t].pc \in {"interval", "sleep5"}
                    => task'[t].pc \in {"interval", "sleep5", "cycle", "done"}
             /\ task[t].pc = "cycle" => task'[t].pc \in {"cycle", "probing", "done"}
      ]_vars

\* The users for which run_record has been called.
Captured == {sess[s].user : s \in {x \in SessIds : sess[x].pc # "free"}}

\* One task is in the interval wait after a probe that found nothing, with
\* no capture ever opened for its user, while the probe of another task
\* has returned a live URL and its capture is being opened.
C27_Witness ==
    \E t, o \in TaskIds :
        /\ task[t].pc = "interval" /\ task[t].user \notin Captured
        /\ task[o].pc = "capture" /\ sess[task[o].sess].pc = "opening"

\* ---------------------------------------------------------------- C28
\* The capture that task t awaits has returned and nothing has timed it out
\* or closed it from outside: its stream ended by itself.
StreamEndedFor(t) ==
    /\ task[t].pc = "capture"
    /\ sess[task[t].sess].pc = "done"
    /\ sess[task[t].sess].timer \in {"none", "cancelled"}

\* The recorder of task t is running and the task has not been cancelled.
StillWanted(t) == running[task[t].rec] /\ task[t].cancel = "no"

\* C28: when the capture a task awaits has returned because the stream
\* ended, and the recorder is still running and the task not cancelled, the
\* task resumes into the first second of the interval wait; a task starts a
\* probe only from the top of its loop, which it reaches from the interval
\* wait only when all the seconds of the interval have been waited; and
\* from that return the task does probe again, unless the recorder is
\* stopped or the task cancelled in between.
C28_AfterCaptureWaitThenProbe ==
    /\ [][\A t \in TaskIds :
            /\ StreamEndedFor(t) /\ StillWanted(t) /\ task'[t].pc # "capture"
                   => task'[t].pc = "interval" /\ task'[t].wait = 1
            /\ task'[t].pc = "probing" /\ task[t].pc # "probing"
                   => task[t].pc = "cycle"
            /\ task'[t].pc = "cycle" /\ task[t].pc # "cycle"
                   => \/ task[t].pc = "new"
                      \/ /\ task[t].pc = "interval"
                         /\ task[t].wait >= UserRecord(task[t].user).interval
         ]_vars
    /\ \A t \in TaskIds :
            (StreamEndedFor(t) /\ StillWanted(t))
               ~> (task[t].pc = "probing" \/ ~StillWanted(t))

\* A task is probing again, its earlier capture having returned after the
\* stream ended, on a recorder that is still running; nothing has failed or
\* expired and no user was added or stopped.
C28_Witness ==
    \E t \in TaskIds : \E s \in SessIds :
        /\ task[t].pc = "probing" /\ StillWanted(t)
        /\ sess[s].pc = "done" /\ sess[s].user = task[t].user
        /\ sess[s].stream = "closed" /\ sess[s].timer = "none"
        /\ faults = 0 /\ calls = 0

\* ---------------------------------------------------------------- C29
\* The coroutine of task t has ended: it is out of the loop of line 313.
LeftLoop(t) == task[t].pc = "done"

\* C29: the step in which a task leaves its loop is taken with the recorder
\* stopped (self.running False) or with a cancellation of the task pending;
\* and a task that has left its loop stays out of it: it does not hold the
\* loop thread for a probe and no capture session is opened for it.
C29_LeavesOnlyOnStopOrCancel ==
    [][\A t \in TaskIds :
          /\ LeftLoop(t)' /\ ~LeftLoop(t)
                => ~running[task[t].rec] \/ task[t].cancel # "no"
          /\ LeftLoop(t)
                => /\ LeftLoop(t)'
                   /\ \A r \in Recorders : busy'[r] # t
                   /\ \A s \in SessIds : Opened(s) => sess'[s].task # t
      ]_vars

\* A task has left its loop while its recorder is running, and another
\* task is probing.
C29_Witness ==
    \E t \in TaskIds :
        /\ LeftLoop(t)
        /\ running[task[t].rec]
        /\ \E o \in TaskIds \ {t} : task[o].pc = "probing"

\* ---------------------------------------------------------------- C30
\* A start or a stop of the per-user recording of u is in progress: the
\* thread of create_recorder_and_start has not reached run_loop, or stop()
\* was called on the user's recorder and the thread has not ended, or the
\* timeout callback of a session of u is running.
InProgressFor(u) ==
    \/ userThread[u] \in {"new", "started"}
    \/ userThread[u] = "loop" /\ (~running["p"] \/ stopPc["p"] # "idle")
    \/ \E s \in SessIds : cbPc[s] # "none" /\ sess[s].user = u

\* The recorder made for the per-user recording of u has a task in its loop
\* or a capture session that has not returned.
OwnRecorderWorksFor(u) ==
    \/ \E t \in TaskIds : Monitoring(t) /\ task[t].rec = "p" /\ task[t].user = u
    \/ \E s \in SessIds : Active(s) /\ sess[s].rec = "p" /\ sess[s].user = u

\* C30: whenever user_recording_status of a user is False and no start or
\* stop for that user is in progress, the recorder of the user's own
\* recording has no task monitoring and no session capturing for the user.
C30_StatusFalseMeansIdle ==
    \A u \in GuiUsers :
        (~userStatus[u] /\ ~InProgressFor(u)) => ~OwnRecorderWorksFor(u)

\* ---------------------------------------------------------------- C31
\* The value a user record with own value own gives a setting whose global
\* value is glob: the user's own when the record carries it.
Override(own, glob) == IF own # Absent THEN own ELSE glob

\* C31: the proxy of the probes, the proxy of the capture and the output
\* directory of a constructed recorder are the user's own values when the
\* user record carries them, and the global values only when it does not.
C31_UserValuesOverrideGlobal ==
    built.phase = "built" =>
        /\ built.probeProxy \in {Unset, Override(built.userProxy, built.cfgProxy)}
        /\ built.streamProxy \in {Unset, Override(built.userProxy, built.cfgProxy)}
        /\ built.dir \in {Unset, Override(built.userOutput,
                                           Get(built.cfgOutput, "output"))}

\* ---------------------------------------------------------------- C32
\* The seconds in one unit of duration, for the three units that bound a
\* capture.
SecondsPer(u) ==
    CASE u = "seconds" -> 1 [] u = "minutes" -> 60 [] u = "hours" -> 3600 [] OTHER -> 0

\* The call bounds its capture: a duration that is not zero in seconds,
\* minutes or hours.
Bounded(a) == a.duration.given /\ a.duration.value # 0 /\ SecondsPer(a.unit) # 0

\* C32: once run_record has passed the arming of its timer, a call with a
\* duration in seconds, minutes or hours has a timer of duration, duration *
\* 60 or duration * 3600 seconds; a call whose duration is absent or zero,
\* or whose unit is absent or any other value, has no timer: its timeout
\* handler never runs and only the end of the stream ends the capture.
C32_TimerSecondsByUnit ==
    armed.phase # "called" =>
        IF Bounded(armed)
        THEN armed.timeout = armed.duration.value * SecondsPer(armed.unit)
        ELSE armed.timeout = 0 /\ ~armed.fired

\* The timer of a call of two hours has run its 7200 seconds.
C32_Witness ==
    /\ armed.unit = "hours" /\ armed.duration.value = 2
    /\ armed.fired /\ armed.timeout = 7200

\* ---------------------------------------------------------------- C33
\* C33: a call of update_config changes the stored configuration of the
\* recorder it is called on and nothing else: the running flags, the task
\* lists, every task (none is started, cancelled or ended), every capture
\* session, the registry and the event loops are as before, and so is the
\* configuration of every other recorder.
C33_UpdateConfigFrame ==
    [][update_recorder_config =>
          /\ UNCHANGED <<running, tasks, task, sess, recording, loop, loopQ, runLoopPc>>
          /\ \A r \in Recorders \ {guiRecorder} : config'[r] = config[r]
          /\ config'[guiRecorder].user = config[guiRecorder].user
      ]_vars

\* The configuration was updated while a task made before the update was
\* waiting for its capture, whose pair is in the registry.
C33_Witness ==
    \E t \in TaskIds :
        /\ task[t].pc = "capture" /\ task[t].sess \in Registered
        /\ task[t].settings < config[task[t].rec].version

\* ---------------------------------------------------------------- C34
\* Task t is inside recorder.run(): probing, in the sleep that follows a
\* failed probe, or waiting for its capture.
InRun(t) == task[t].pc \in {"probing", "sleep5", "capture"}

\* C34: while the recorder runs and the task is not cancelled, the step that
\* ends a cycle's run() - after a probe that found nothing, a capture that
\* returned, a failed probe or the 300 s ceiling - puts the task in the
\* first one-second slice of its wait; each slice but the last is followed
\* by the next one, and the last, which is slice number `interval`, by the
\* start of the next cycle's run(): `interval` slices, no more and no less.
C34_ExactlyIntervalSlices ==
    [][\A t \in TaskIds :
          LET n == UserRecord(task[t].user).interval
          IN  (StillWanted(t) /\ running'[task[t].rec] /\ task'[t].cancel = "no"
                   /\ task'[t] # task[t])
              => /\ InRun(t) /\ ~InRun(t)'
                    => task'[t].pc = "interval" /\ task'[t].wait = 1
                 /\ task[t].pc = "interval"
                    => /\ task[t].wait \in 1..n
                       /\ IF task[t].wait < n
                          THEN task'[t].pc = "interval" /\ task'[t].wait = task[t].wait + 1
                          ELSE task'[t].pc = "cycle"
                 /\ task'[t].pc = "cycle" => task[t].pc \in {"new", "interval"}
      ]_vars

\* The only task there is, of interval 2, is in the second slice of its
\* wait after a cycle in which its probe failed; no capture was ever opened.
C34_Witness ==
    \E t \in TaskIds :
        /\ task[t].pc = "interval" /\ task[t].wait = 2 /\ StillWanted(t)
        /\ UserRecord(task[t].user).interval = 2
        /\ faults = 1
        /\ \A o \in TaskIds \ {t} : task[o].pc = "free"
        /\ \A s \in SessIds : sess[s].pc = "free"

\* ---------------------------------------------------------------- C35
\* C35: a call of stop() on a recorder that is not running - never started,
\* or stopped before - changes nothing: no task is cancelled or ended, no
\* stream or output is closed, the task list, the registry, the event loop
\* and what is queued on it are as before.
C35_StopWhenNotRunningIsNoOp ==
    [][\A r \in Recorders :
          (StopCall(r) /\ ~running[r])
             => UNCHANGED <<running, tasks, task, sess, recording, loop, loopQ,
                            stopPc, runLoopPc>>
      ]_vars

\* A recorder that was started and stopped is not running and no stop() is
\* in progress, so that a second stop() can be called, while the registry
\* holds a pair whose stream and output are open and a task is yet to end.
C35_Witness ==
    /\ started["g"] /\ ~running["g"] /\ stopPc["g"] = "idle"
    /\ \E s \in Registered : sess[s].stream = "open" /\ sess[s].output = "open"
    /\ \E t \in TaskIds : Monitoring(t)

\* ---------------------------------------------------------------- C36
\* C36: stop_recording(url) for a URL the registry holds closes the stream
\* and the output of that entry and removes the URL from the registry,
\* every other entry and its pair staying as they were; for a URL the
\* registry does not hold it changes nothing.
C36_StopRecordingRemovesEntry ==
    [][\A u \in ApiUsers :
          stop_recording("g", u) =>
             IF recording[u] = NoSess
             THEN UNCHANGED <<sess, recording>>
             ELSE /\ StreamClosedAttr(sess'[recording[u]].stream)
                  /\ sess'[recording[u]].output # "open"
                  /\ recording'[u] = NoSess
                  /\ \A o \in UserIds \ {u} : recording'[o] = recording[o]
                  /\ \A s \in SessIds \ {recording[u]} : sess'[s] = sess[s]
      ]_vars

\* ---------------------------------------------------------------- C37
\* The per-user recording of u was stopped from the GUI and its thread has
\* not ended: the status is False while the thread of
\* create_recorder_and_start is alive, and no duration timer of the user's
\* recorder has fired (the timeout callback clears the status as well).
StoppedFromGui(u) ==
    /\ ~userStatus[u]
    /\ userThread[u] \in {"new", "started", "loop"}
    /\ \A s \in SessIds :
          (sess[s].pc # "free" /\ sess[s].rec = "p")
             => sess[s].timer \in {"none", "armed", "cancelled"}

\* The recording thread of u has made and started its recorder, and that
\* recorder is stopped: it is not running and none of its tasks is in its
\* monitoring loop.
UserRecorderStopped(u) ==
    /\ userThread[u] \in {"loop", "ended"}
    /\ ~running["p"]
    /\ \A t \in TaskIds : ~(Monitoring(t) /\ task[t].rec = "p")

\* C37: a stop_user_recording(id) issued at any time after
\* start_user_recording(id), also before the recording thread has stored
\* its recorder, leads to the user's recorder being stopped, with no
\* monitoring loop for the user left running.
C37_GuiStopEndsUserRecorder ==
    \A u \in GuiUsers : StoppedFromGui(u) ~> UserRecorderStopped(u)

\* ---------------------------------------------------------------- C38
\* C38: after import_config(export_config()) the stored global settings
\* and, for every stored user, its id, platform, name, interval, duration
\* and duration_unit are what they were before.
C38_ImportExportRoundTrip ==
    store.phase = "imported" =>
        /\ store.db.proxy = store.before.proxy
        /\ \A i \in StoreIds : store.db.users[i] = store.before.users[i]

\* ---------------------------------------------------------------- C39
\* C39: when stream_writer has returned, normally or after an exception,
\* the stream it opened is closed, the output is closed and the registry
\* holds no pair of this call under its URL.
C39_StreamWriterReleases ==
    writer.phase = "returned" =>
        /\ writer.stream # "open"
        /\ writer.output # "open"
        /\ writer.registry[writer.url] # "own"

====
